---- MODULE Spec2Model ----
(***************************************************************************)
(* The academic-record store of smart-roll: the relational schema, its    *)
(* row-level-security policies and the SQL helper functions (RPCs) that   *)
(* compute attendance, GPA and the offerings a student may register for.  *)
(*                                                                         *)
(* Numbers.  A DECIMAL percentage is held in hundredths (80.00 is 8000).  *)
(* A DECIMAL quotient that SQL does not truncate (SGPA, CGPA) is held as  *)
(* the fraction [num, den]; 0.0 is [num |-> 0, den |-> 1].  Dates and     *)
(* timestamps are small integers.  SQL NULL in an integer or date column  *)
(* is NULL; in a text column it is NULLTEXT.                              *)
(***************************************************************************)
EXTENDS Integers, FiniteSets, Sequences, TLC

NULL == -1
NULLTEXT == "NULL"

(***************************************************************************)
(* Bounds of the model.                                                    *)
(***************************************************************************)
MaxDate == 3            \* attendance dates are 1..MaxDate
MaxAttendance == 3      \* at most this many attendance_records rows
MaxEnrollments == 2     \* at most this many enrollments rows are written
MaxNow == 4             \* the clock NOW() runs over 0..MaxNow
MaxNewSemesters == 1    \* at most this many semesters rows are created
MaxFilterChanges == 2   \* the semester filter is changed at most this often
MaxFetches == 2         \* at most this many roster requests of an offering in flight

(***************************************************************************)
(* Program constants.                                                      *)
(***************************************************************************)
MaxSemester == 8        \* CHECK (current_semester <= 8); WHERE current_semester < 8

(***************************************************************************)
(* The fixture: users, the course catalog, the offerings.                  *)
(***************************************************************************)
Users == {"a1", "t1", "t2", "ta1", "s1", "s2"}

user_role ==
    [u \in Users |->
        CASE u = "a1" -> "admin"
          [] u \in {"t1", "t2"} -> "teacher"
          [] u = "ta1" -> "ta"
          [] OTHER -> "student"]

Students == {"s1", "s2"}

student_stream == [s \in Students |-> IF s = "s1" THEN "CSE" ELSE "DSE"]

Courses == {"c1", "c2", "c3"}

courses ==
    [c \in Courses |->
        CASE c = "c1" -> [stream |-> "CSE", credits |-> 3, logical_semester |-> 1]
          [] c = "c2" -> [stream |-> "COMMON", credits |-> 4, logical_semester |-> NULL]
          [] OTHER    -> [stream |-> "DSE", credits |-> 2, logical_semester |-> 2]]

Semesters == {"sem1", "sem2"}

Offerings == {"o1", "o2", "o3"}

course_offerings_fixture ==
    [o \in Offerings |->
        CASE o = "o1" -> [course_id |-> "c1", teacher_id |-> "t1", semester_id |-> "sem1"]
          [] o = "o2" -> [course_id |-> "c2", teacher_id |-> "t1", semester_id |-> "sem1"]
          [] OTHER    -> [course_id |-> "c3", teacher_id |-> "t2", semester_id |-> "sem2"]]

\* course_tas: ta1 assists offering o1.
course_tas == {[offering_id |-> "o1", ta_id |-> "ta1"]}

Dates == 1..MaxDate

EnrollmentStatus == {"enrolled", "completed", "dropped"}

AttendanceStatus == {"present", "absent"}

(***************************************************************************)
(* The state: the tables that change, the clock, and the last call.        *)
(***************************************************************************)
VARIABLES
    current_semester,    \* students.current_semester, by student_id
    semesters,           \* semesters rows, by semester_id
    enrollments,         \* set of enrollments rows
    attendance_records,  \* set of attendance_records rows
    now,                 \* NOW()
    last,                \* the last statement or RPC, with what it returned
    users,               \* users.role, by user_id
    teaching_assistants, \* set of teaching_assistants rows
    requests,            \* the statement each concurrent client has in flight
    course_offerings,    \* course_offerings rows, by offering_id
    course_prerequisites, \* set of course_prerequisites rows
    page                 \* what the page open in the browser holds

vars == <<current_semester, semesters, enrollments, attendance_records, now, last,
          users, teaching_assistants, requests, course_offerings,
          course_prerequisites, page>>

\* The users rows of the fixture: the role column repeats the role the
\* account was created with.
users_fixture == [u \in Users |-> [role |-> user_role[u]]]

\* ta1 is a teaching assistant who did not start as a student of the fixture.
teaching_assistants_fixture == {[ta_id |-> "ta1", student_id |-> NULLTEXT]}

\* The clients that send statements concurrently: the teacher and the TA of
\* offering o1.
Clients == {"t1", "ta1"}

NoRequest == [state |-> "none"]

NoCall == [op |-> "none"]

\* No page of the application is open.
NoPage == [name |-> "none"]

\* Requests are served one at a time: a request is taken when the last one
\* has been answered, and Return hands the answer over.
Idle == last = NoCall

Return ==
    /\ ~Idle
    /\ last' = NoCall
    /\ UNCHANGED <<current_semester, semesters, enrollments, attendance_records, now,
                 users, teaching_assistants, requests, course_offerings,
                 course_prerequisites, page>>

(***************************************************************************)
(* Row-level security.                                                     *)
(***************************************************************************)
current_user_role(uid) == user_role[uid]

\* students: "Admins can manage all students" and "Students can see/update
\* their own profile" (FOR ALL: USING and WITH CHECK student_id = auth.uid()).
students_write_policy(uid, student_id) ==
    \/ current_user_role(uid) = "admin"
    \/ student_id = uid

\* CHECK (current_semester > 0 AND current_semester <= 8); NULL passes a CHECK.
current_semester_check(v) ==
    v = NULL \/ (v > 0 /\ v <= MaxSemester)

(***************************************************************************)
(* Lifecycle: increment_all_student_semesters.                             *)
(***************************************************************************)
increment_where_mutant(v) == v # NULL /\ v <= MaxSemester
increment_where(v) == v # NULL /\ v < MaxSemester

incremented(cs) ==
    [s \in Students |-> IF increment_where(cs[s]) THEN cs[s] + 1 ELSE cs[s]]

\* The UPDATE is one statement: a row that breaks the CHECK aborts all of it.
increment_all_student_semesters ==
    /\ Idle
    /\ current_semester' =
         IF \A s \in Students : current_semester_check(incremented(current_semester)[s])
         THEN incremented(current_semester)
         ELSE current_semester
    /\ last' = [op |-> "increment_all_student_semesters", before |-> current_semester]
    /\ UNCHANGED <<semesters, enrollments, attendance_records, now,
                 users, teaching_assistants, requests, course_offerings,
                 course_prerequisites, page>>

\* UPDATE students SET current_semester = v WHERE student_id = sid, as uid.
update_student(uid, sid, v) ==
    /\ Idle
    /\ students_write_policy(uid, sid)
    /\ current_semester_check(v)
    /\ current_semester' = [current_semester EXCEPT ![sid] = v]
    /\ last' = [op |-> "update_student", uid |-> uid, before |-> current_semester]
    /\ UNCHANGED <<semesters, enrollments, attendance_records, now,
                 users, teaching_assistants, requests, course_offerings,
                 course_prerequisites, page>>

\* A student writes the own students row.
StudentUpdatesOwnProfile ==
    \E uid \in Students, v \in (1..MaxSemester) \cup {NULL} :
        update_student(uid, uid, v)

\* An admin writes any students row.
AdminUpdatesStudent ==
    \E uid \in {u \in Users : user_role[u] = "admin"}, sid \in Students,
       v \in (1..MaxSemester) \cup {NULL} :
        update_student(uid, sid, v)

(***************************************************************************)
(* attendance_records: writes under row-level security.                    *)
(***************************************************************************)
\* "Teachers can manage attendance for their offerings" and "TAs can manage
\* attendance for their offerings" (FOR ALL).
attendance_write_policy_mutant(uid, offering_id) ==
    \/ current_user_role(uid) = "admin"
    \/ course_offerings[offering_id].teacher_id = uid
    \/ \E ct \in course_tas : ct.offering_id = offering_id /\ ct.ta_id = uid
attendance_write_policy(uid, offering_id) ==
    \/ course_offerings[offering_id].teacher_id = uid
    \/ \E ct \in course_tas : ct.offering_id = offering_id /\ ct.ta_id = uid

\* UNIQUE(offering_id, student_id, date)
attendance_key_taken_mutant(o, s, d) ==
    \E ar \in attendance_records :
        ar.offering_id = o /\ ar.student_id = s /\ ar.date = d /\ ar.status = "present"
attendance_key_taken(o, s, d) ==
    \E ar \in attendance_records :
        ar.offering_id = o /\ ar.student_id = s /\ ar.date = d

\* The users who send attendance in this model: the teacher and the TA of
\* the first semester's offerings, and a student (whom the policies deny).
AttendanceMarkers == {"t1", "ta1", "s1"}

\* INSERT INTO attendance_records (offering_id, student_id, date, status),
\* sent by a user the policies permit.
insert_attendance(o, s, d, st) ==
    /\ Idle
    /\ \E uid \in AttendanceMarkers : attendance_write_policy(uid, o)
    /\ ~attendance_key_taken(o, s, d)
    /\ Cardinality(attendance_records) < MaxAttendance
    /\ attendance_records' = attendance_records \cup
         {[offering_id |-> o, student_id |-> s, date |-> d, status |-> st]}
    /\ last' = NoCall
    /\ UNCHANGED <<current_semester, semesters, enrollments, now,
                 users, teaching_assistants, requests, course_offerings,
                 course_prerequisites, page>>

InsertAttendance ==
    \E o \in Offerings, s \in Students, d \in Dates, st \in AttendanceStatus :
        insert_attendance(o, s, d, st)

\* UPDATE attendance_records SET status = st WHERE (offering_id, student_id,
\* date) = (o, s, d), sent by a user the policies permit: the "fix" of a record.
update_attendance(o, s, d, st) ==
    /\ Idle
    /\ \E uid \in AttendanceMarkers : attendance_write_policy(uid, o)
    /\ attendance_key_taken(o, s, d)
    /\ attendance_records' =
         {IF ar.offering_id = o /\ ar.student_id = s /\ ar.date = d
          THEN [ar EXCEPT !.status = st] ELSE ar : ar \in attendance_records}
    /\ attendance_records' # attendance_records
    /\ last' = NoCall
    /\ UNCHANGED <<current_semester, semesters, enrollments, now,
                 users, teaching_assistants, requests, course_offerings,
                 course_prerequisites, page>>

UpdateAttendance ==
    \E o \in Offerings, s \in Students, d \in Dates, st \in AttendanceStatus :
        update_attendance(o, s, d, st)

(***************************************************************************)
(* Attendance metrics.                                                     *)
(***************************************************************************)
\* SELECT COUNT(DISTINCT date) FROM attendance_records WHERE offering_id = o_id
get_total_class_days(o_id) ==
    Cardinality({ar.date : ar \in {a \in attendance_records : a.offering_id = o_id}})

\* COUNT(ar.status) FILTER (WHERE ar.status = 'present') over the rows the
\* LEFT JOIN gives the enrollment of student s_id in offering o_id.
present_count_mutant(o_id, s_id) ==
    Cardinality({ar \in attendance_records :
        /\ ar.student_id = s_id
        /\ ar.status = "present"})
present_count(o_id, s_id) ==
    Cardinality({ar \in attendance_records :
        /\ ar.offering_id = o_id
        /\ ar.student_id = s_id
        /\ ar.status = "present"})

\* TRUNC(attended * 100.0 / total, 2), in hundredths.
trunc_percentage_mutant(attended, total) == (attended * 10000 + total \div 2) \div total
trunc_percentage(attended, total) == (attended * 10000) \div total

\* CASE WHEN total > 0 THEN TRUNC(...) ELSE 0.0 END
attendance_percentage_mutant(attended, total) ==
    IF total > 0 THEN trunc_percentage(attended, total) ELSE NULL
attendance_percentage(attended, total) ==
    IF total > 0 THEN trunc_percentage(attended, total) ELSE 0

\* WHERE e.offering_id = o_id AND e.status = 'enrolled'
stats_where_mutant(e, o_id) == e.offering_id = o_id /\ e.status # "dropped"
stats_where(e, o_id) == e.offering_id = o_id /\ e.status = "enrolled"

\* One row per group of GROUP BY s.student_id, u.full_name, s.roll_number,
\* total_class_days; the joins to students and users keep every enrollment.
get_course_attendance_stats(o_id) ==
    LET total_class_days == get_total_class_days(o_id)
        groups == {e.student_id : e \in {x \in enrollments : stats_where(x, o_id)}}
    IN  {[student_id |-> s,
          total_classes |-> total_class_days,
          attended_classes |-> present_count(o_id, s),
          attendance_percentage |->
              attendance_percentage(present_count(o_id, s), total_class_days)]
         : s \in groups}

\* c.logical_semester = student_semester OR c.logical_semester IS NULL
\* (a comparison with NULL is not true).
logical_semester_matches(c, student_semester) ==
    \/ /\ courses[c].logical_semester # NULL
       /\ student_semester # NULL
       /\ courses[c].logical_semester = student_semester
    \/ courses[c].logical_semester = NULL

\* One row per group of GROUP BY e.offering_id, c.course_name.
get_student_current_attendance(s_id) ==
    LET student_semester == current_semester[s_id]
        groups == {e.offering_id : e \in {x \in enrollments :
                      /\ x.student_id = s_id
                      /\ x.status = "enrolled"
                      /\ logical_semester_matches(
                             course_offerings[x.offering_id].course_id,
                             student_semester)}}
    IN  {[course_id |-> o,
          total_classes |-> get_total_class_days(o),
          attended_classes |-> present_count(o, s_id),
          attendance_percentage |->
              attendance_percentage(present_count(o, s_id), get_total_class_days(o))]
         : o \in groups}

\* One row per enrollment the WHERE keeps (target_sem_id NULLTEXT: no filter).
get_student_course_history(s_id, target_sem_id) ==
    {[course_code |-> course_offerings[e.offering_id].course_id,
      semester_id |-> course_offerings[e.offering_id].semester_id,
      logical_semester |->
          courses[course_offerings[e.offering_id].course_id].logical_semester,
      grade |-> e.grade,
      attendance_percentage |->
          attendance_percentage(present_count(e.offering_id, e.student_id),
                                get_total_class_days(e.offering_id))]
     : e \in {x \in enrollments :
                /\ x.student_id = s_id
                /\ x.status = "completed"
                /\ x.grade # NULLTEXT
                /\ (target_sem_id = NULLTEXT
                    \/ course_offerings[x.offering_id].semester_id = target_sem_id)}}

CallCourseAttendanceStats ==
    /\ Idle
    /\ \E o \in Offerings :
         last' = [op |-> "get_course_attendance_stats", o_id |-> o,
                  result |-> get_course_attendance_stats(o)]
    /\ UNCHANGED <<current_semester, semesters, enrollments, attendance_records, now,
                 users, teaching_assistants, requests, course_offerings,
                 course_prerequisites, page>>

CallStudentCurrentAttendance ==
    /\ Idle
    /\ \E s \in Students :
         last' = [op |-> "get_student_current_attendance", s_id |-> s,
                  result |-> get_student_current_attendance(s)]
    /\ UNCHANGED <<current_semester, semesters, enrollments, attendance_records, now,
                 users, teaching_assistants, requests, course_offerings,
                 course_prerequisites, page>>

CallStudentCourseHistory ==
    /\ Idle
    /\ \E s \in Students, m \in Semesters \cup {NULLTEXT} :
         last' = [op |-> "get_student_course_history", s_id |-> s,
                  target_sem_id |-> m,
                  result |-> get_student_course_history(s, m)]
    /\ UNCHANGED <<current_semester, semesters, enrollments, attendance_records, now,
                 users, teaching_assistants, requests, course_offerings,
                 course_prerequisites, page>>

(***************************************************************************)
(* enrollments: writes under row-level security.                           *)
(***************************************************************************)
\* "Students can manage their own enrollments", "Teachers can manage
\* enrollments for their offerings", "TAs can manage enrollments for their
\* offerings" (FOR ALL); admins have SELECT only.
enrollments_write_policy(uid, student_id, offering_id) ==
    \/ student_id = uid
    \/ course_offerings[offering_id].teacher_id = uid
    \/ \E ct \in course_tas : ct.offering_id = offering_id /\ ct.ta_id = uid

enrollment_row(s, o, st, g, gp) ==
    [student_id |-> s, offering_id |-> o, status |-> st, grade |-> g,
     grade_point |-> gp]

\* UNIQUE(student_id, offering_id)
enrollment_key_taken(s, o) ==
    \E e \in enrollments : e.student_id = s /\ e.offering_id = o

\* INSERT INTO enrollments (student_id, offering_id), sent by a user the
\* policies permit: status takes its default 'enrolled', grade and
\* grade_point stay NULL.
insert_enrollment(s, o) ==
    /\ Idle
    /\ \E uid \in Users : enrollments_write_policy(uid, s, o)
    /\ ~enrollment_key_taken(s, o)
    /\ Cardinality(enrollments) < MaxEnrollments
    /\ enrollments' = enrollments \cup
         {enrollment_row(s, o, "enrolled", NULLTEXT, NULL)}
    /\ last' = NoCall
    /\ UNCHANGED <<current_semester, semesters, attendance_records, now,
                 users, teaching_assistants, requests, course_offerings,
                 course_prerequisites, page>>

InsertEnrollment ==
    \E s \in Students, o \in Offerings :
        insert_enrollment(s, o)

\* UPDATE enrollments SET status = st, grade = g, grade_point = gp
\* WHERE (student_id, offering_id) = (s, o), sent by a user the policies permit.
update_enrollment(s, o, st, g, gp) ==
    /\ Idle
    /\ \E uid \in Users : enrollments_write_policy(uid, s, o)
    /\ enrollment_key_taken(s, o)
    /\ enrollments' =
         {IF e.student_id = s /\ e.offering_id = o
          THEN enrollment_row(s, o, st, g, gp) ELSE e : e \in enrollments}
    /\ enrollments' # enrollments
    /\ last' = NoCall
    /\ UNCHANGED <<current_semester, semesters, attendance_records, now,
                 users, teaching_assistants, requests, course_offerings,
                 course_prerequisites, page>>

\* The grades a grade sheet is filled with: none, or a letter and its points.
Grades == {<<NULLTEXT, NULL>>, <<"B", 6>>, <<"A", 9>>}

UpdateEnrollment ==
    \E s \in Students, o \in Offerings, st \in EnrollmentStatus, g \in Grades :
        update_enrollment(s, o, st, g[1], g[2])

(***************************************************************************)
(* Grade point averages.                                                   *)
(***************************************************************************)
NULLDECIMAL == [null |-> TRUE]

ZeroDecimal == [num |-> 0, den |-> 1]

credits_of(e) == courses[course_offerings[e.offering_id].course_id].credits

RECURSIVE sum_credits_times_grade_point(_)
\* SUM(c.credits * e.grade_point) over a non-empty set of joined rows
sum_credits_times_grade_point(rows) ==
    IF rows = {} THEN 0
    ELSE LET e == CHOOSE x \in rows : TRUE
         IN  credits_of(e) * e.grade_point
               + sum_credits_times_grade_point(rows \ {e})

RECURSIVE sum_credits(_)
\* SUM(c.credits) over a non-empty set of joined rows
sum_credits(rows) ==
    IF rows = {} THEN 0
    ELSE LET e == CHOOSE x \in rows : TRUE
         IN  credits_of(e) + sum_credits(rows \ {e})

\* SUM(c.credits * e.grade_point) / SUM(c.credits): NULL over no rows.
weighted_average(rows) ==
    IF rows = {} THEN NULLDECIMAL
    ELSE [num |-> sum_credits_times_grade_point(rows), den |-> sum_credits(rows)]

\* COALESCE(x, 0.0)
coalesce_zero_mutant(x) == x
coalesce_zero(x) == IF x = NULLDECIMAL THEN ZeroDecimal ELSE x

\* WHERE e.student_id = s_id AND e.status = 'completed'
\*   AND e.grade_point IS NOT NULL AND co.semester_id = target_sem_id
sgpa_where_mutant(e, s_id, target_sem_id) ==
    /\ e.student_id = s_id
    /\ e.grade_point # NULL
    /\ course_offerings[e.offering_id].semester_id = target_sem_id
sgpa_where(e, s_id, target_sem_id) ==
    /\ e.student_id = s_id
    /\ e.status = "completed"
    /\ e.grade_point # NULL
    /\ course_offerings[e.offering_id].semester_id = target_sem_id

get_student_sgpa(s_id, target_sem_id) ==
    coalesce_zero(weighted_average(
        {e \in enrollments : sgpa_where(e, s_id, target_sem_id)}))

\* max_sem_date IS NULL OR s.start_date <= max_sem_date
\* (a comparison with a NULL start_date is not true).
cgpa_cutoff_mutant(start_date, max_sem_date) ==
    \/ max_sem_date = NULL
    \/ (start_date # NULL /\ start_date < max_sem_date)
cgpa_cutoff(start_date, max_sem_date) ==
    \/ max_sem_date = NULL
    \/ (start_date # NULL /\ start_date <= max_sem_date)

\* WHERE e.student_id = s_id AND e.status = 'completed'
\*   AND e.grade_point IS NOT NULL AND (the cutoff),
\* over the join with the offering's semester.
cgpa_where(e, s_id, max_sem_date) ==
    /\ e.student_id = s_id
    /\ e.status = "completed"
    /\ e.grade_point # NULL
    /\ cgpa_cutoff(semesters[course_offerings[e.offering_id].semester_id].start_date,
                   max_sem_date)

get_student_cgpa(s_id, max_sem_date) ==
    coalesce_zero(weighted_average(
        {e \in enrollments : cgpa_where(e, s_id, max_sem_date)}))

CallStudentSgpa ==
    /\ Idle
    /\ \E s \in Students, m \in Semesters :
         last' = [op |-> "get_student_sgpa", s_id |-> s, target_sem_id |-> m,
                  result |-> get_student_sgpa(s, m)]
    /\ UNCHANGED <<current_semester, semesters, enrollments, attendance_records, now,
                 users, teaching_assistants, requests, course_offerings,
                 course_prerequisites, page>>

\* The cutoffs asked for: none, and the days before, at and after the
\* start_date of the two semesters of the fixture.
CutoffDates == {NULL} \cup {0, 1, 2, 3}

CallStudentCgpa ==
    /\ Idle
    /\ \E s \in Students, d \in CutoffDates :
         last' = [op |-> "get_student_cgpa", s_id |-> s, max_sem_date |-> d,
                  result |-> get_student_cgpa(s, d)]
    /\ UNCHANGED <<current_semester, semesters, enrollments, attendance_records, now,
                 users, teaching_assistants, requests, course_offerings,
                 course_prerequisites, page>>

(***************************************************************************)
(* semesters: the clock, and the admin's write of is_active.               *)
(***************************************************************************)
\* "Admins can manage semesters" (FOR ALL)
semesters_write_policy(uid) == current_user_role(uid) = "admin"

\* UPDATE semesters SET is_active = b WHERE semester_id = m, sent by an admin.
update_semester_is_active(m, b) ==
    /\ Idle
    /\ \E uid \in Users : semesters_write_policy(uid)
    /\ semesters[m].is_active # b
    /\ semesters' = [semesters EXCEPT ![m].is_active = b]
    /\ last' = NoCall
    /\ UNCHANGED <<current_semester, enrollments, attendance_records, now,
                 users, teaching_assistants, requests, course_offerings,
                 course_prerequisites, page>>

UpdateSemesterIsActive ==
    \E m \in Semesters, b \in BOOLEAN : update_semester_is_active(m, b)

\* Time passes.
Tick ==
    /\ Idle
    /\ now < MaxNow
    /\ now' = now + 1
    /\ last' = NoCall
    /\ UNCHANGED <<current_semester, semesters, enrollments, attendance_records,
                 users, teaching_assistants, requests, course_offerings,
                 course_prerequisites, page>>

(***************************************************************************)
(* get_available_offerings_for_student.                                    *)
(***************************************************************************)
\* WHERE is_active = true AND registration_start_date < NOW()
\*   AND registration_end_date > NOW()
registration_open_mutant(m) ==
    /\ semesters[m].is_active
    /\ semesters[m].registration_start_date <= now
    /\ semesters[m].registration_end_date >= now
registration_open(m) ==
    /\ semesters[m].is_active
    /\ semesters[m].registration_start_date < now
    /\ semesters[m].registration_end_date > now

\* WHERE co.semester_id = active_sem_id
\*   AND c.stream IN (student_stream, 'COMMON')
\*   AND (c.logical_semester = student_semester OR c.logical_semester IS NULL)
\*   AND NOT EXISTS (an enrollment of s_id in the offering)
available_where_mutant(o, s_id, active_sem_id) ==
    LET c == course_offerings[o].course_id
    IN  /\ course_offerings[o].semester_id = active_sem_id
        /\ courses[c].stream = student_stream[s_id]
        /\ logical_semester_matches(c, current_semester[s_id])
        /\ ~enrollment_key_taken(s_id, o)
available_where(o, s_id, active_sem_id) ==
    LET c == course_offerings[o].course_id
    IN  /\ course_offerings[o].semester_id = active_sem_id
        /\ courses[c].stream \in {student_stream[s_id], "COMMON"}
        /\ logical_semester_matches(c, current_semester[s_id])
        /\ ~enrollment_key_taken(s_id, o)

\* The JSON array of co.* with the course object, for the semester the
\* SELECT ... LIMIT 1 gave.
available_offerings(s_id, active_sem_id) ==
    {[offering_id |-> o,
      semester_id |-> course_offerings[o].semester_id,
      course |-> [course_id |-> course_offerings[o].course_id,
                  stream |-> courses[course_offerings[o].course_id].stream,
                  logical_semester |->
                      courses[course_offerings[o].course_id].logical_semester]]
     : o \in {x \in Offerings : available_where(x, s_id, active_sem_id)}}

\* SELECT semester_id ... LIMIT 1 has no ORDER BY: of several open semesters
\* any one may come back; with none, the function returns '[]'.
get_available_offerings_for_student_mutant(s_id, result) ==
    LET in_window(m) == /\ semesters[m].registration_start_date < now
                        /\ semesters[m].registration_end_date > now
    IN  IF \E m \in DOMAIN semesters : in_window(m)
        THEN \E m \in DOMAIN semesters :
                in_window(m) /\ result = available_offerings(s_id, m)
        ELSE result = {}
get_available_offerings_for_student(s_id, result) ==
    IF \E m \in DOMAIN semesters : registration_open(m)
    THEN \E m \in DOMAIN semesters :
            registration_open(m) /\ result = available_offerings(s_id, m)
    ELSE result = {}

CallAvailableOfferings ==
    /\ Idle
    /\ \E s \in Students :
       \E result \in {{}} \cup {available_offerings(s, m) : m \in DOMAIN semesters} :
         /\ get_available_offerings_for_student(s, result)
         /\ last' = [op |-> "get_available_offerings_for_student", s_id |-> s,
                      result |-> result]
    /\ UNCHANGED <<current_semester, semesters, enrollments, attendance_records, now,
                 users, teaching_assistants, requests, course_offerings,
                 course_prerequisites, page>>

(***************************************************************************)
(* Registration periods: POST /api/admin/registration/start and            *)
(* POST /api/admin/registration/stop, on the semesters table.              *)
(***************************************************************************)
\* semester_id UUID PRIMARY KEY DEFAULT uuid_generate_v4(): the ids new rows
\* get, in the order they are given out.
NewSemesterIds == <<"sem3", "sem4", "sem5">>

\* The values the admin's form is filled with.
AcademicYears == {"2025", "2026"}
Seasons == {"Fall", "Spring"}
RegistrationStarts == {0, 1, 2}
RegistrationEnds == {1, 2, 3}

\* CONSTRAINT semesters_academic_year_season_unique UNIQUE(academic_year, season)
semesters_key_taken_mutant(academic_year, season) ==
    \E m \in DOMAIN semesters :
        /\ semesters[m].academic_year = academic_year
        /\ semesters[m].season = season
        /\ semesters[m].is_active
semesters_key_taken(academic_year, season) ==
    \E m \in DOMAIN semesters :
        /\ semesters[m].academic_year = academic_year
        /\ semesters[m].season = season

\* "end must be after start"
registration_window_valid_mutant(registration_start_date, registration_end_date) ==
    registration_end_date >= registration_start_date
registration_window_valid(registration_start_date, registration_end_date) ==
    registration_end_date > registration_start_date

\* The row StartRegistration inserts: the form sends no start_date.
new_semester_row(academic_year, season, registration_start_date, registration_end_date) ==
    [academic_year |-> academic_year, season |-> season, start_date |-> NULL,
     registration_start_date |-> registration_start_date,
     registration_end_date |-> registration_end_date, is_active |-> TRUE]

\* The semesters table with one more row.
insert_semester(id, row) ==
    [m \in DOMAIN semesters \cup {id} |-> IF m = id THEN row ELSE semesters[m]]

NewSemesters == DOMAIN semesters \ Semesters

\* StartRegistration(academic_year, season, start, end), sent by an admin:
\* a ValidationError before the table is touched, a ConflictError from the
\* unique constraint, or one new active row.
start_registration(uid, academic_year, season, registration_start_date, registration_end_date) ==
    LET call == [op |-> "start_registration", academic_year |-> academic_year,
                 season |-> season,
                 registration_start_date |-> registration_start_date,
                 registration_end_date |-> registration_end_date,
                 before |-> semesters]
        id == NewSemesterIds[Cardinality(NewSemesters) + 1]
    IN  /\ Idle
        /\ semesters_write_policy(uid)
        /\ IF ~registration_window_valid(registration_start_date,
                                         registration_end_date)
           THEN /\ last' = call @@ [result |-> "ValidationError"]
                /\ UNCHANGED semesters
           ELSE IF semesters_key_taken(academic_year, season)
           THEN /\ last' = call @@ [result |-> "ConflictError"]
                /\ UNCHANGED semesters
           ELSE /\ Cardinality(NewSemesters) < MaxNewSemesters
                /\ semesters' =
                     insert_semester(id, new_semester_row(academic_year, season,
                         registration_start_date, registration_end_date))
                /\ last' = call @@ [result |-> "ok"]
        /\ UNCHANGED <<current_semester, enrollments, attendance_records, now,
                       users, teaching_assistants, requests, course_offerings,
                 course_prerequisites, page>>

StartRegistration ==
    \E uid \in Users, y \in AcademicYears, n \in Seasons,
       s \in RegistrationStarts, e \in RegistrationEnds :
        start_registration(uid, y, n, s, e)

\* StopAllActiveRegistrations(), sent by an admin:
\* UPDATE semesters SET is_active = false WHERE is_active = true
stop_all_where_mutant(m) == semesters[m].is_active /\ semesters[m].registration_end_date <= now
stop_all_where(m) == semesters[m].is_active

stop_all_active_registrations(uid) ==
    /\ Idle
    /\ semesters_write_policy(uid)
    /\ semesters' = [m \in DOMAIN semesters |->
                        IF stop_all_where(m)
                        THEN [semesters[m] EXCEPT !.is_active = FALSE]
                        ELSE semesters[m]]
    /\ last' = [op |-> "stop_all_active_registrations", before |-> semesters,
                result |-> "ok"]
    /\ UNCHANGED <<current_semester, enrollments, attendance_records, now,
                   users, teaching_assistants, requests, course_offerings,
                 course_prerequisites, page>>

StopAllActiveRegistrations == \E uid \in Users : stop_all_active_registrations(uid)

(***************************************************************************)
(* Concurrent marking: the teacher and the TA of an offering each send an  *)
(* attendance record, and the database runs the two INSERTs in some order. *)
(***************************************************************************)
\* The client's request leaves: the record to store is on its way.
send_mark_attendance(c, o, s, d, st) ==
    /\ requests[c].state = "none"
    /\ requests' = [requests EXCEPT ![c] =
            [state |-> "sent", offering_id |-> o, student_id |-> s,
             date |-> d, status |-> st, result |-> "none"]]
    /\ UNCHANGED <<current_semester, semesters, enrollments, attendance_records,
                   now, last, users, teaching_assistants, course_offerings,
                 course_prerequisites, page>>

SendMarkAttendance ==
    \E c \in Clients, o \in Offerings, s \in Students, d \in Dates,
       st \in AttendanceStatus :
        send_mark_attendance(c, o, s, d, st)

\* INSERT INTO attendance_records (offering_id, student_id, date, status) as
\* client c: one statement, refused by row-level security, or by
\* UNIQUE(offering_id, student_id, date), or stored.
execute_insert_attendance(c) ==
    LET r == requests[c]
    IN  /\ r.state = "sent"
        /\ IF ~attendance_write_policy(c, r.offering_id)
           THEN /\ requests' = [requests EXCEPT ![c].state = "done",
                                                ![c].result = "AuthorizationError"]
                /\ UNCHANGED attendance_records
           ELSE IF attendance_key_taken(r.offering_id, r.student_id, r.date)
           THEN /\ requests' = [requests EXCEPT ![c].state = "done",
                                                ![c].result = "ConflictError"]
                /\ UNCHANGED attendance_records
           ELSE /\ attendance_records' = attendance_records \cup
                     {[offering_id |-> r.offering_id, student_id |-> r.student_id,
                       date |-> r.date, status |-> r.status]}
                /\ requests' = [requests EXCEPT ![c].state = "done",
                                                ![c].result = "ok"]
        /\ UNCHANGED <<current_semester, semesters, enrollments, now, last,
                       users, teaching_assistants, course_offerings,
                 course_prerequisites, page>>

ExecuteInsertAttendance == \E c \in Clients : execute_insert_attendance(c)

(***************************************************************************)
(* users and teaching_assistants: the admin's writes.                      *)
(***************************************************************************)
UserRoles == {"admin", "teacher", "student", "ta"}

\* "Admins can manage all users" (FOR ALL); everyone else has SELECT on the
\* own row only.
users_write_policy(uid) == current_user_role(uid) = "admin"

\* UPDATE users SET role = role WHERE user_id = target, as uid: role is an
\* ordinary column of users.
update_user_role(uid, target, role) ==
    /\ Idle
    /\ users_write_policy(uid)
    /\ users[target].role # role
    /\ users' = [users EXCEPT ![target].role = role]
    /\ last' = [op |-> "update_user_role", uid |-> uid, target |-> target,
                role |-> role]
    /\ UNCHANGED <<current_semester, semesters, enrollments, attendance_records,
                   now, teaching_assistants, requests, course_offerings,
                 course_prerequisites, page>>

UpdateUserRole ==
    \E uid \in Users, target \in Users, role \in UserRoles :
        update_user_role(uid, target, role)

\* "Admins can manage TAs" (FOR ALL)
teaching_assistants_write_policy(uid) == current_user_role(uid) = "admin"

\* ta_id UUID PRIMARY KEY, student_id UUID UNIQUE
teaching_assistants_key_taken_mutant(target) ==
    \E ta \in teaching_assistants : ta.ta_id = target /\ ta.student_id # target
teaching_assistants_key_taken(target) ==
    \E ta \in teaching_assistants : ta.ta_id = target \/ ta.student_id = target

\* student_id UUID REFERENCES students(student_id)
students_row_exists(target) == target \in Students

\* "fails if the user is not currently a student"
is_currently_student(target) == users[target].role = "student"

\* PromoteStudentToTA(target), sent by an admin: one INSERT INTO
\* teaching_assistants (ta_id, student_id) VALUES (target, target), or a
\* failure that writes nothing.  The students row and users.role stay.
promote_student_to_ta(uid, target) ==
    LET call == [op |-> "promote_student_to_ta", target |-> target,
                 before |-> [users |-> users,
                             teaching_assistants |-> teaching_assistants,
                             current_semester |-> current_semester]]
    IN  /\ Idle
        /\ teaching_assistants_write_policy(uid)
        /\ IF ~is_currently_student(target) \/ ~students_row_exists(target)
           THEN /\ last' = call @@ [result |-> "ValidationError"]
                /\ UNCHANGED teaching_assistants
           ELSE IF teaching_assistants_key_taken(target)
           THEN /\ last' = call @@ [result |-> "ConflictError"]
                /\ UNCHANGED teaching_assistants
           ELSE /\ teaching_assistants' = teaching_assistants \cup
                     {[ta_id |-> target, student_id |-> target]}
                /\ last' = call @@ [result |-> "ok"]
        /\ UNCHANGED <<current_semester, semesters, enrollments,
                       attendance_records, now, users, requests, course_offerings,
                 course_prerequisites, page>>

PromoteStudentToTA == \E uid \in Users, target \in Users : promote_student_to_ta(uid, target)

(***************************************************************************)
(* attendance_records: statements sent by any user, with what row-level    *)
(* security makes of them.                                                 *)
(***************************************************************************)
\* "Admins can see all attendance", "Students can see their own attendance"
\* (FOR SELECT), and the two FOR ALL policies of teachers and TAs.
attendance_select_policy(uid, ar) ==
    \/ current_user_role(uid) = "admin"
    \/ ar.student_id = uid
    \/ attendance_write_policy(uid, ar.offering_id)

\* The rows of the key that an UPDATE or DELETE sent by uid reaches: those
\* the FOR ALL policies pass; the others are skipped without an error.
attendance_rows_reached(uid, o, s, d) ==
    {ar \in attendance_records :
        /\ ar.offering_id = o /\ ar.student_id = s /\ ar.date = d
        /\ attendance_write_policy(uid, ar.offering_id)}

\* The dates the statements of this part are sent for.
StatementDates == {1}

\* SELECT * FROM attendance_records WHERE offering_id = o, as uid: the rows
\* the policies pass, and never an error.
select_attendance(uid, o) ==
    /\ Idle
    /\ last' = [op |-> "select_attendance", uid |-> uid, offering_id |-> o,
                status |-> "ok",
                rows |-> {ar \in attendance_records :
                            ar.offering_id = o /\ attendance_select_policy(uid, ar)}]
    /\ UNCHANGED <<current_semester, semesters, enrollments, attendance_records,
                   now, users, teaching_assistants, requests, course_offerings,
                 course_prerequisites, page>>

SelectAttendance == \E uid \in Users, o \in Offerings : select_attendance(uid, o)

\* INSERT INTO attendance_records (offering_id, student_id, date, status), as
\* uid: a row the policies do not pass is an error.
insert_attendance_as(uid, o, s, d, st) ==
    LET row == [offering_id |-> o, student_id |-> s, date |-> d, status |-> st]
        call == [op |-> "insert_attendance", uid |-> uid, offering_id |-> o]
    IN  /\ Idle
        /\ IF ~attendance_write_policy(uid, o)
           THEN /\ last' = call @@ [status |-> "AuthorizationError", rows |-> {}]
                /\ UNCHANGED attendance_records
           ELSE IF attendance_key_taken(o, s, d)
           THEN /\ last' = call @@ [status |-> "ConflictError", rows |-> {}]
                /\ UNCHANGED attendance_records
           ELSE /\ Cardinality(attendance_records) < MaxAttendance
                /\ attendance_records' = attendance_records \cup {row}
                /\ last' = call @@ [status |-> "ok", rows |-> {row}]
        /\ UNCHANGED <<current_semester, semesters, enrollments, now,
                       users, teaching_assistants, requests, course_offerings,
                 course_prerequisites, page>>

InsertAttendanceAs ==
    \E uid \in Users, o \in Offerings, s \in Students, d \in StatementDates,
       st \in AttendanceStatus :
        insert_attendance_as(uid, o, s, d, st)

\* UPDATE attendance_records SET status = st WHERE (offering_id, student_id,
\* date) = (o, s, d), as uid.
update_attendance_as(uid, o, s, d, st) ==
    LET reached == attendance_rows_reached(uid, o, s, d)
    IN  /\ Idle
        /\ attendance_records' =
             {IF ar \in reached THEN [ar EXCEPT !.status = st] ELSE ar :
                ar \in attendance_records}
        /\ last' = [op |-> "update_attendance", uid |-> uid, offering_id |-> o,
                    status |-> "ok",
                    rows |-> {[ar EXCEPT !.status = st] : ar \in reached}]
        /\ UNCHANGED <<current_semester, semesters, enrollments, now,
                       users, teaching_assistants, requests, course_offerings,
                 course_prerequisites, page>>

UpdateAttendanceAs ==
    \E uid \in Users, o \in Offerings, s \in Students, d \in StatementDates,
       st \in AttendanceStatus :
        update_attendance_as(uid, o, s, d, st)

\* DELETE FROM attendance_records WHERE (offering_id, student_id, date) =
\* (o, s, d), as uid.
delete_attendance_as(uid, o, s, d) ==
    LET reached == attendance_rows_reached(uid, o, s, d)
    IN  /\ Idle
        /\ attendance_records' = attendance_records \ reached
        /\ last' = [op |-> "delete_attendance", uid |-> uid, offering_id |-> o,
                    status |-> "ok", rows |-> reached]
        /\ UNCHANGED <<current_semester, semesters, enrollments, now,
                       users, teaching_assistants, requests, course_offerings,
                 course_prerequisites, page>>

DeleteAttendanceAs ==
    \E uid \in Users, o \in Offerings, s \in Students, d \in StatementDates :
        delete_attendance_as(uid, o, s, d)

(***************************************************************************)
(* course_tas: reads under row-level security.                             *)
(***************************************************************************)
\* auth.role() of a session that has logged in.
auth_role(uid) == "authenticated"

\* "Admins can manage all TAs", "Teachers can manage TAs for their offerings"
\* (FOR ALL) and "Authenticated users can view TAs" (FOR SELECT).
course_tas_select_policy(uid, ct) ==
    \/ current_user_role(uid) = "admin"
    \/ course_offerings[ct.offering_id].teacher_id = uid
    \/ auth_role(uid) = "authenticated"

\* SELECT * FROM course_tas, as uid.
select_course_tas(uid) ==
    /\ Idle
    /\ last' = [op |-> "select_course_tas", uid |-> uid, status |-> "ok",
                rows |-> {ct \in course_tas : course_tas_select_policy(uid, ct)}]
    /\ UNCHANGED <<current_semester, semesters, enrollments, attendance_records,
                   now, users, teaching_assistants, requests, course_offerings,
                 course_prerequisites, page>>

SelectCourseTas == \E uid \in Users : select_course_tas(uid)

(***************************************************************************)
(* get_teacher_offerings_with_status.                                      *)
(***************************************************************************)
\* EXISTS (SELECT 1 FROM enrollments e
\*         WHERE e.offering_id = co.offering_id AND e.status = 'completed')
offering_is_completed_mutant(o) ==
    \E e \in enrollments : e.offering_id = o /\ e.status # "enrolled"
offering_is_completed(o) ==
    \E e \in enrollments : e.offering_id = o /\ e.status = "completed"

\* FROM course_offerings co JOIN courses c ... JOIN semesters s
\*   ON co.semester_id = s.semester_id WHERE co.teacher_id = t_id:
\* an offering whose semester_id is NULL joins no semesters row.
teacher_offerings_where(o, t_id) ==
    /\ course_offerings[o].semester_id \in DOMAIN semesters
    /\ course_offerings[o].teacher_id = t_id

teacher_offerings_rows(t_id) ==
    {[offering_id |-> o,
      course_id |-> course_offerings[o].course_id,
      teacher_id |-> course_offerings[o].teacher_id,
      semester_id |-> course_offerings[o].semester_id,
      logical_semester |-> courses[course_offerings[o].course_id].logical_semester,
      academic_year |-> semesters[course_offerings[o].semester_id].academic_year,
      season |-> semesters[course_offerings[o].semester_id].season,
      course_code |-> course_offerings[o].course_id,
      stream |-> courses[course_offerings[o].course_id].stream,
      is_completed |-> offering_is_completed(o)]
     : o \in {x \in Offerings : teacher_offerings_where(x, t_id)}}

\* ORDER BY s.start_date DESC: NULL sorts first, and rows with equal
\* start_date come in any order.
start_date_desc(d1, d2) == d1 = NULL \/ (d2 # NULL /\ d1 >= d2)

get_teacher_offerings_with_status(t_id, result) ==
    /\ Len(result) = Cardinality(teacher_offerings_rows(t_id))
    /\ {result[i] : i \in 1..Len(result)} = teacher_offerings_rows(t_id)
    /\ \A i, j \in 1..Len(result) :
         i < j => start_date_desc(semesters[result[i].semester_id].start_date,
                                  semesters[result[j].semester_id].start_date)

Teachers == {u \in Users : user_role[u] = "teacher"}

CallTeacherOfferings ==
    /\ Idle
    /\ \E t \in Teachers :
       \E result \in [1..Cardinality(teacher_offerings_rows(t)) ->
                        teacher_offerings_rows(t)] :
         /\ get_teacher_offerings_with_status(t, result)
         /\ last' = [op |-> "get_teacher_offerings_with_status", t_id |-> t,
                      result |-> result]
    /\ UNCHANGED <<current_semester, semesters, enrollments, attendance_records,
                   now, users, teaching_assistants, requests, course_offerings,
                 course_prerequisites, page>>

(***************************************************************************)
(* course_prerequisites: handlePrerequisiteSubmit and the POST behind it.  *)
(***************************************************************************)
\* The value of a select element: a course, or "" when nothing is selected.
NoSelection == ""

\* "Admins/Teachers can manage prerequisites" (FOR ALL)
course_prerequisites_write_policy(uid) ==
    current_user_role(uid) \in {"admin", "teacher"}

\* UNIQUE(course_id, prerequisite_course_id)
course_prerequisites_key_taken(course_id, prerequisite_course_id) ==
    \E cp \in course_prerequisites :
        /\ cp.course_id = course_id
        /\ cp.prerequisite_course_id = prerequisite_course_id

\* POST /api/teacher/courses/{course_id}/prerequisites: a course is not made
\* its own prerequisite (ValidationError), a repeated pair is a
\* ConflictError, anything else is stored.
add_prerequisite_status(course_id, prerequisite_course_id) ==
    IF course_id = prerequisite_course_id THEN "ValidationError"
    ELSE IF course_prerequisites_key_taken(course_id, prerequisite_course_id)
    THEN "ConflictError"
    ELSE "ok"

\* if (courseId === prereqId)
is_own_prerequisite(courseId, prereqId) == courseId = prereqId

\* handlePrerequisiteSubmit, run by teacher uid with the form filled in:
\* nothing is sent for an incomplete form or for a course picked as its own
\* prerequisite; otherwise the request is sent and answered.
handlePrerequisiteSubmit(uid, courseId, prereqId, is_mandatory) ==
    LET call == [op |-> "handlePrerequisiteSubmit", courseId |-> courseId,
                 prereqId |-> prereqId, before |-> course_prerequisites]
        status == add_prerequisite_status(courseId, prereqId)
    IN  /\ Idle
        /\ course_prerequisites_write_policy(uid)
        /\ IF courseId = NoSelection \/ prereqId = NoSelection
           THEN /\ last' = call @@ [sent |-> FALSE, message |->
                        "Please select both a course and its prerequisite."]
                /\ UNCHANGED course_prerequisites
           ELSE IF is_own_prerequisite(courseId, prereqId)
           THEN /\ last' = call @@ [sent |-> FALSE, message |->
                        "A course cannot be a prerequisite for itself."]
                /\ UNCHANGED course_prerequisites
           ELSE /\ last' = call @@ [sent |-> TRUE, message |-> status]
                /\ course_prerequisites' =
                     IF status = "ok"
                     THEN course_prerequisites \cup
                            {[course_id |-> courseId,
                              prerequisite_course_id |-> prereqId,
                              is_mandatory |-> is_mandatory]}
                     ELSE course_prerequisites
        /\ UNCHANGED <<current_semester, semesters, enrollments,
                       attendance_records, now, users, teaching_assistants,
                       requests, course_offerings, page>>

\* INSERT INTO course_prerequisites (course_id, prerequisite_course_id) by
\* user uid: the policy's check and UNIQUE decide; is_mandatory takes its
\* default. The table has no CHECK that compares the two columns.
insert_course_prerequisite_as(uid, course_id, prerequisite_course_id) ==
    LET ok == /\ course_prerequisites_write_policy(uid)
              /\ ~course_prerequisites_key_taken(course_id,
                                                 prerequisite_course_id)
    IN  /\ Idle
        /\ last' = [op |-> "insert_course_prerequisite", uid |-> uid,
                    course_id |-> course_id,
                    prerequisite_course_id |-> prerequisite_course_id,
                    result |-> IF ok THEN "ok" ELSE "error"]
        /\ course_prerequisites' =
             IF ok
             THEN course_prerequisites \cup
                    {[course_id |-> course_id,
                      prerequisite_course_id |-> prerequisite_course_id,
                      is_mandatory |-> TRUE]}
             ELSE course_prerequisites
        /\ UNCHANGED <<current_semester, semesters, enrollments,
                       attendance_records, now, users, teaching_assistants,
                       requests, course_offerings, page>>

InsertCoursePrerequisiteAs ==
    \E uid \in {"t1", "s1"}, course_id \in Courses,
       prerequisite_course_id \in Courses :
        insert_course_prerequisite_as(uid, course_id, prerequisite_course_id)

HandlePrerequisiteSubmit ==
    \E uid \in Teachers, courseId \in Courses \cup {NoSelection},
       prereqId \in Courses \cup {NoSelection}, is_mandatory \in BOOLEAN :
        handlePrerequisiteSubmit(uid, courseId, prereqId, is_mandatory)

(***************************************************************************)
(* The browser: localStorage, apiFetch, handleLogin and logout.            *)
(***************************************************************************)
StorageKeys == {"access_token", "refresh_token", "user_role"}

\* localStorage with nothing stored: getItem returns null for every key.
EmptyStorage == [k \in StorageKeys |-> NULLTEXT]

\* The replies of the server: an HTTP status, or NetworkError when fetch
\* rejects.
NetworkError == 0
Statuses == {200, 400, 401, 403, 500, NetworkError}

\* response.ok
response_ok(status) == status = 200

\* apiFetch: if (!accessToken) { redirectToLogin(); return; }
apiFetch_sends(localStorage) == localStorage["access_token"] # NULLTEXT

\* apiFetch: if (response.status === 401 || response.status === 403)
apiFetch_logs_out_mutant(status) == status = 401
apiFetch_logs_out(status) == status \in {401, 403}

\* logout: removeItem for the three keys
logout(localStorage) ==
    [k \in StorageKeys |->
        IF k \in {"access_token", "refresh_token", "user_role"}
        THEN NULLTEXT ELSE localStorage[k]]

\* redirectToDashboard
redirectToDashboard(role) ==
    CASE role = "admin" -> "dashboard_admin.html"
      [] role = "teacher" -> "dashboard_teacher.html"
      [] role = "student" -> "dashboard_student.html"
      [] role = "ta" -> "dashboard_ta.html"
      [] OTHER -> "index.html"

(***************************************************************************)
(* The admin page (admin.js).                                              *)
(***************************************************************************)
AdminHandlers == {"handleAddNewStudent", "handleAddNewTeacher", "handleStartRegistration", "handleStopRegistration", "handleAdvanceSemester"}

\* redirectToLogin: window.location.href = "index.html" unless that is the
\* open page. The assignment starts the navigation; the script goes on.
redirectToLogin(pg) ==
    IF pg.location # "index.html"
    THEN [pg EXCEPT !.href = "index.html"]
    ELSE pg

\* protectPage, called when a dashboard is loaded
protectPage(pg) ==
    IF pg.localStorage["access_token"] = NULLTEXT
    THEN redirectToLogin(pg)
    ELSE pg

\* A page that was just loaded: every button enabled, no request in flight;
\* a dashboard starts with protectPage.
loaded_page(location, localStorage) ==
    LET pg == [location |-> location, href |-> location,
               localStorage |-> localStorage,
               disabled |-> [h \in AdminHandlers |-> FALSE],
               awaiting |-> [h \in AdminHandlers |-> FALSE],
               login |-> FALSE]
    IN  IF location = "index.html" THEN pg ELSE protectPage(pg)

\* The navigation started by an assignment to window.location.href ends:
\* the new page replaces the open one, and what the old one waited for is
\* dropped.
Navigate ==
    /\ Idle
    /\ page.href # page.location
    /\ page' = loaded_page(page.href, page.localStorage)
    /\ last' = [op |-> "navigate"]
    /\ UNCHANGED <<current_semester, semesters, enrollments, attendance_records, now, users, teaching_assistants, requests, course_offerings, course_prerequisites>>

\* button.disabled = true; ... await apiFetch(...) of an admin handler h:
\* the request is sent when a token is stored; without one apiFetch
\* redirects and returns undefined, response.json() throws inside try, and
\* finally enables the button again.
admin_request(pg, h) ==
    IF apiFetch_sends(pg.localStorage)
    THEN [pg EXCEPT !.disabled[h] = TRUE, !.awaiting[h] = TRUE]
    ELSE redirectToLogin(pg)

\* The admin can use the control of handler h.
admin_can_click(h) ==
    /\ Idle
    /\ page.location = "dashboard_admin.html"
    /\ ~page.disabled[h]

\* The tables and the clock, which no handler of the page writes itself.
page_leaves_tables ==
    UNCHANGED <<semesters, enrollments, attendance_records, now, users, teaching_assistants, requests, course_offerings, course_prerequisites>>

\* handleAddNewStudent and handleAddNewTeacher: nothing before the try
\* block throws.
handleAddNew(h) ==
    /\ admin_can_click(h)
    /\ page' = admin_request(page, h)
    /\ last' = [op |-> h, confirmed |-> TRUE,
                sent |-> apiFetch_sends(page.localStorage)]
    /\ UNCHANGED current_semester
    /\ page_leaves_tables

HandleAddNew ==
    \E h \in {"handleAddNewStudent", "handleAddNewTeacher"} : handleAddNew(h)

\* The values of the datetime-local inputs reg-start and reg-end.
LocalDates == {"", "2025-07-01T09:00"}

\* new Date(v).toISOString() throws RangeError for an invalid date.
toISOString_throws(v) == v = ""

\* handleStartRegistration: the button is disabled, then the request body is
\* built outside the try block; when that throws the handler ends there.
handleStartRegistration(localStartDate, localEndDate) ==
    LET h == "handleStartRegistration"
        thrown == toISOString_throws(localStartDate)
                    \/ toISOString_throws(localEndDate)
    IN  /\ admin_can_click(h)
        /\ page' = IF thrown
                   THEN [page EXCEPT !.disabled[h] = TRUE]
                   ELSE admin_request(page, h)
        /\ last' = [op |-> h, confirmed |-> TRUE,
                    sent |-> ~thrown /\ apiFetch_sends(page.localStorage)]
        /\ UNCHANGED current_semester
        /\ page_leaves_tables

HandleStartRegistration ==
    \E localStartDate \in LocalDates, localEndDate \in LocalDates :
        handleStartRegistration(localStartDate, localEndDate)

\* if (!confirm(...)) return;
confirm_declined_mutant(confirmed) == FALSE
confirm_declined(confirmed) == ~confirmed

\* handleStopRegistration and handleAdvanceSemester: the prompt comes first.
handleConfirmed(h, confirmed) ==
    /\ admin_can_click(h)
    /\ page' = IF confirm_declined(confirmed)
               THEN page
               ELSE admin_request(page, h)
    /\ last' = [op |-> h, confirmed |-> confirmed,
                sent |-> ~confirm_declined(confirmed)
                            /\ apiFetch_sends(page.localStorage)]
    /\ UNCHANGED current_semester
    /\ page_leaves_tables

HandleConfirmed ==
    \E h \in {"handleStopRegistration", "handleAdvanceSemester"},
       confirmed \in BOOLEAN : handleConfirmed(h, confirmed)

\* POST /api/admin/semester/advance answered with 200 has run
\* increment_all_student_semesters; no other request of the page writes
\* current_semester.
semester_advance_served(h, status) ==
    IF /\ h = "handleAdvanceSemester"
       /\ response_ok(status)
       /\ \A s \in Students :
            current_semester_check(incremented(current_semester)[s])
    THEN incremented(current_semester)
    ELSE current_semester

\* The reply to the request of handler h arrives. A 401 or 403 makes
\* apiFetch log out and return undefined; that, any other reply, and a
\* rejected fetch, all end in the handler's finally block.
admin_reply(h, status) ==
    /\ Idle
    /\ page.awaiting[h]
    /\ page' = LET ended == [page EXCEPT !.disabled[h] = FALSE,
                                        !.awaiting[h] = FALSE]
               IN  IF apiFetch_logs_out(status)
                   THEN redirectToLogin([ended EXCEPT
                            !.localStorage = logout(page.localStorage)])
                   ELSE ended
    /\ current_semester' = semester_advance_served(h, status)
    /\ last' = [op |-> "reply", handler |-> h, status |-> status]
    /\ page_leaves_tables

AdminReply == \E h \in AdminHandlers, status \in Statuses : admin_reply(h, status)

\* handleLogin on index.html: the button is disabled and the request is
\* sent with fetch, not apiFetch.
handleLogin ==
    /\ Idle
    /\ page.location = "index.html"
    /\ ~page.login
    /\ page' = [page EXCEPT !.login = TRUE]
    /\ last' = [op |-> "handleLogin"]
    /\ UNCHANGED current_semester
    /\ page_leaves_tables

\* The access tokens the server hands out.
Tokens == {"token1", "token2"}

\* The reply to the login request: 200 stores the three items and loads the
\* dashboard; anything else shows the error and enables the button.
login_reply(status, access_token) ==
    /\ Idle
    /\ page.login
    /\ page' = IF response_ok(status)
               THEN [page EXCEPT
                        !.localStorage = [access_token |-> access_token,
                                          refresh_token |-> access_token,
                                          user_role |-> "admin"],
                        !.href = redirectToDashboard("admin")]
               ELSE [page EXCEPT !.login = FALSE]
    /\ last' = [op |-> "login reply", status |-> status]
    /\ UNCHANGED current_semester
    /\ page_leaves_tables

LoginReply == \E status \in Statuses, access_token \in Tokens : login_reply(status, access_token)

\* The admin clicks Logout on the dashboard.
Logout ==
    /\ Idle
    /\ page.location = "dashboard_admin.html"
    /\ page' = redirectToLogin([page EXCEPT
                    !.localStorage = logout(page.localStorage)])
    /\ last' = [op |-> "logout"]
    /\ UNCHANGED current_semester
    /\ page_leaves_tables

(***************************************************************************)
(* The student page (student.js): the semester filter.                     *)
(***************************************************************************)
\* The value of semester-filter: a semester, or NULLTEXT for "All".
FilterValues == Semesters \cup {NULLTEXT}

\* The replies to a request sent in a valid session.
RepliesInSession == {200, 500, NetworkError}

\* What a container shows: the loader, the error text, or the data the
\* server sent for a filter value.
Loader == "loader"
CouldNotLoad == "could not load"

\* The runs of loadCourseHistory that have not ended.
Running == {i \in DOMAIN page.loads : page.loads[i].pc # "done"}

\* loadAllStudentData has shown the profile and filled the filter, and has
\* just called loadCourseHistory(null, ...): both loaders are shown and the
\* grades request is sent.
student_page_loaded ==
    [location |-> "dashboard_student.html",
     filter |-> NULLTEXT,
     loads |-> <<[semester_id |-> NULLTEXT, pc |-> "grades"]>>,
     grades |-> Loader,
     gpa |-> Loader]

\* handleSemesterFilterChange: reads the filter value and sends the profile
\* request; nothing is cancelled and nothing is shown yet.
handleSemesterFilterChange(semester_id) ==
    /\ page.location = "dashboard_student.html"
    /\ Len(page.loads) <= MaxFilterChanges
    /\ page' = [page EXCEPT
                  !.filter = semester_id,
                  !.loads = Append(@, [semester_id |-> semester_id,
                                       pc |-> "profile"])]

HandleSemesterFilterChange ==
    /\ \E semester_id \in FilterValues : handleSemesterFilterChange(semester_id)
    /\ UNCHANGED <<current_semester, semesters, enrollments, attendance_records, now, last, users, teaching_assistants, requests, course_offerings, course_prerequisites>>

\* The reply to fetchStudentProfile of run i: on success loadCourseHistory
\* starts, shows both loaders and sends the grades request; otherwise
\* handleSemesterFilterChange ends with the exception.
profile_reply(i, status) ==
    /\ page.loads[i].pc = "profile"
    /\ page' = IF response_ok(status)
               THEN [page EXCEPT !.loads[i].pc = "grades",
                                 !.grades = Loader, !.gpa = Loader]
               ELSE [page EXCEPT !.loads[i].pc = "done"]

\* The reply to fetchStudentGrades of run i: renderGrades, then the GPA
\* request for a semester, or renderGpaData with the profile's CGPA for
\* "All"; the catch block writes both containers.
grades_reply(i, status) ==
    LET semester_id == page.loads[i].semester_id
    IN  /\ page.loads[i].pc = "grades"
        /\ page' = IF ~response_ok(status)
                   THEN [page EXCEPT !.loads[i].pc = "done",
                                     !.grades = CouldNotLoad,
                                     !.gpa = CouldNotLoad]
                   ELSE IF semester_id # NULLTEXT
                   THEN [page EXCEPT !.loads[i].pc = "gpa",
                                     !.grades = semester_id]
                   ELSE [page EXCEPT !.loads[i].pc = "done",
                                     !.grades = semester_id,
                                     !.gpa = semester_id]

\* The reply to fetchGpaData of run i: renderGpaData, or the catch block.
gpa_reply(i, status) ==
    /\ page.loads[i].pc = "gpa"
    /\ page' = IF response_ok(status)
               THEN [page EXCEPT !.loads[i].pc = "done",
                                 !.gpa = page.loads[i].semester_id]
               ELSE [page EXCEPT !.loads[i].pc = "done",
                                 !.grades = CouldNotLoad,
                                 !.gpa = CouldNotLoad]

ProfileReply ==
    /\ \E i \in Running, status \in RepliesInSession : profile_reply(i, status)
    /\ UNCHANGED <<current_semester, semesters, enrollments, attendance_records, now, last, users, teaching_assistants, requests, course_offerings, course_prerequisites>>

GradesReply ==
    /\ \E i \in Running, status \in RepliesInSession : grades_reply(i, status)
    /\ UNCHANGED <<current_semester, semesters, enrollments, attendance_records, now, last, users, teaching_assistants, requests, course_offerings, course_prerequisites>>

GpaReply ==
    /\ \E i \in Running, status \in RepliesInSession : gpa_reply(i, status)
    /\ UNCHANGED <<current_semester, semesters, enrollments, attendance_records, now, last, users, teaching_assistants, requests, course_offerings, course_prerequisites>>

(***************************************************************************)
(* The TA page (ta.js): getStudentRoster and its cache.                    *)
(***************************************************************************)
\* studentRosters[offeringId] of an offering never stored (no roster).
Undefined == {"undefined"}

\* The rosters the server may send: any set of students (it changes as
\* students enroll and drop).
Rosters == SUBSET Students

\* if (studentRosters[offeringId]): an array, the empty one too, is truthy.
roster_cached(studentRosters, offeringId) == studentRosters[offeringId] # Undefined

\* The TA page just loaded: let studentRosters = {}
ta_page_loaded ==
    [location |-> "dashboard_ta.html",
     studentRosters |-> [o \in Offerings |-> Undefined],
     fetching |-> [o \in Offerings |-> 0]]

\* getStudentRoster(offeringId), called by handleViewRoster or
\* loadStudentsForFixForm: the cached roster is returned, or the request is
\* sent.
getStudentRoster(offeringId) ==
    /\ Idle
    /\ page.location = "dashboard_ta.html"
    /\ IF roster_cached(page.studentRosters, offeringId)
       THEN /\ last' = [op |-> "getStudentRoster", offeringId |-> offeringId,
                        sent |-> FALSE,
                        result |-> page.studentRosters[offeringId]]
            /\ page' = page
       ELSE /\ page.fetching[offeringId] < MaxFetches
            /\ last' = [op |-> "getStudentRoster", offeringId |-> offeringId,
                        sent |-> TRUE, result |-> Undefined]
            /\ page' = [page EXCEPT !.fetching[offeringId] = @ + 1]

GetStudentRoster ==
    /\ \E offeringId \in Offerings : getStudentRoster(offeringId)
    /\ UNCHANGED <<current_semester, semesters, enrollments, attendance_records, now, users, teaching_assistants, requests, course_offerings, course_prerequisites>>

\* The reply to a roster request for offeringId: a reply that is not ok
\* throws before the assignment; otherwise the roster is stored and
\* returned.
roster_reply(offeringId, status, students) ==
    /\ Idle
    /\ page.fetching[offeringId] > 0
    /\ IF response_ok(status)
       THEN /\ page' = [page EXCEPT !.fetching[offeringId] = @ - 1,
                                    !.studentRosters[offeringId] = students]
            /\ last' = [op |-> "roster reply", offeringId |-> offeringId,
                        status |-> status, result |-> students]
       ELSE /\ page' = [page EXCEPT !.fetching[offeringId] = @ - 1]
            /\ last' = [op |-> "roster reply", offeringId |-> offeringId,
                        status |-> status, result |-> Undefined]

RosterReply ==
    /\ \E offeringId \in Offerings, status \in RepliesInSession, students \in Rosters : roster_reply(offeringId, status, students)
    /\ UNCHANGED <<current_semester, semesters, enrollments, attendance_records, now, users, teaching_assistants, requests, course_offerings, course_prerequisites>>

(***************************************************************************)
(* Initial states.                                                         *)
(***************************************************************************)
semesters_fixture ==
    [m \in Semesters |->
        IF m = "sem1"
        THEN [academic_year |-> "2025", season |-> "Fall",
              start_date |-> 1, registration_start_date |-> 0,
              registration_end_date |-> 3, is_active |-> FALSE]
        ELSE [academic_year |-> "2025", season |-> "Spring",
              start_date |-> 2, registration_start_date |-> 1,
              registration_end_date |-> 4, is_active |-> FALSE]]

Init ==
    /\ current_semester \in [Students -> 1..MaxSemester]
    /\ semesters = semesters_fixture
    /\ enrollments = {}
    /\ attendance_records = {}
    /\ now = 0
    /\ last = NoCall
    /\ users = users_fixture
    /\ teaching_assistants = teaching_assistants_fixture
    /\ requests = [c \in Clients |-> NoRequest]
    /\ course_prerequisites = {}
    /\ page = NoPage
    /\ course_offerings = course_offerings_fixture

Next ==
    \/ increment_all_student_semesters
    \/ StudentUpdatesOwnProfile
    \/ AdminUpdatesStudent
    \/ Return

Spec == Init /\ [][Next]_vars

(***************************************************************************)
(* The attendance specification: teachers and TAs insert and fix           *)
(* attendance records of a class whose enrollments are fixed, and the      *)
(* three attendance reports are called.                                    *)
(***************************************************************************)
enrollments_fixture ==
    {enrollment_row("s1", "o1", "enrolled", NULLTEXT, NULL),
     enrollment_row("s2", "o1", "enrolled", NULLTEXT, NULL),
     enrollment_row("s1", "o2", "enrolled", NULLTEXT, NULL),
     enrollment_row("s2", "o2", "completed", "A", 9),
     enrollment_row("s1", "o3", "completed", "B", 6),
     enrollment_row("s2", "o3", "dropped", NULLTEXT, NULL)}

InitAttendance ==
    /\ current_semester = [s \in Students |-> IF s = "s1" THEN 1 ELSE 2]
    /\ semesters = semesters_fixture
    /\ enrollments = enrollments_fixture
    /\ attendance_records = {}
    /\ now = 0
    /\ last = NoCall
    /\ users = users_fixture
    /\ teaching_assistants = teaching_assistants_fixture
    /\ requests = [c \in Clients |-> NoRequest]
    /\ course_prerequisites = {}
    /\ page = NoPage
    /\ course_offerings = course_offerings_fixture

NextAttendance ==
    \/ InsertAttendance
    \/ UpdateAttendance
    \/ CallCourseAttendanceStats
    \/ CallStudentCurrentAttendance
    \/ CallStudentCourseHistory
    \/ Return

SpecAttendance == InitAttendance /\ [][NextAttendance]_vars

(***************************************************************************)
(* The enrollment specification: students enroll, the permitted users      *)
(* rewrite status and grade of enrollments, and SGPA, CGPA and the         *)
(* attendance report are called.  The attendance records are fixed; the    *)
(* second semester has a start_date or none.                               *)
(***************************************************************************)
attendance_fixture ==
    {[offering_id |-> "o1", student_id |-> "s1", date |-> 1, status |-> "present"],
     [offering_id |-> "o1", student_id |-> "s1", date |-> 2, status |-> "absent"],
     [offering_id |-> "o2", student_id |-> "s2", date |-> 1, status |-> "present"]}

InitEnrollment ==
    /\ current_semester = [s \in Students |-> IF s = "s1" THEN 1 ELSE 2]
    /\ semesters \in {semesters_fixture,
                       [semesters_fixture EXCEPT !["sem2"].start_date = NULL]}
    /\ enrollments = {}
    /\ attendance_records = attendance_fixture
    /\ now = 0
    /\ last = NoCall
    /\ users = users_fixture
    /\ teaching_assistants = teaching_assistants_fixture
    /\ requests = [c \in Clients |-> NoRequest]
    /\ course_prerequisites = {}
    /\ page = NoPage
    /\ course_offerings = course_offerings_fixture

NextEnrollment ==
    \/ InsertEnrollment
    \/ UpdateEnrollment
    \/ CallStudentSgpa
    \/ CallStudentCgpa
    \/ CallCourseAttendanceStats
    \/ Return

SpecEnrollment == InitEnrollment /\ [][NextEnrollment]_vars

(***************************************************************************)
(* The registration specification: the admin opens and closes semesters,   *)
(* time passes, students enroll, the semesters of all students advance,    *)
(* and the offerings available to a student are asked for.                 *)
(***************************************************************************)
InitRegistration ==
    /\ current_semester \in [Students -> (1..MaxSemester) \cup {NULL}]
    /\ semesters = semesters_fixture
    /\ enrollments = {}
    /\ attendance_records = {}
    /\ now = 0
    /\ last = NoCall
    /\ users = users_fixture
    /\ teaching_assistants = teaching_assistants_fixture
    /\ requests = [c \in Clients |-> NoRequest]
    /\ course_prerequisites = {}
    /\ page = NoPage
    /\ course_offerings = course_offerings_fixture

NextRegistration ==
    \/ UpdateSemesterIsActive
    \/ Tick
    \/ InsertEnrollment
    \/ increment_all_student_semesters
    \/ CallAvailableOfferings
    \/ Return

SpecRegistration == InitRegistration /\ [][NextRegistration]_vars

(***************************************************************************)
(* The lifecycle specification: the admin starts and stops registration    *)
(* periods, time passes, and the offerings available to a student are      *)
(* asked for.  The first semester of the fixture may have been started     *)
(* already.                                                                *)
(***************************************************************************)
InitLifecycle ==
    /\ current_semester = [s \in Students |-> IF s = "s1" THEN 1 ELSE 2]
    /\ \E b \in BOOLEAN :
         semesters = [semesters_fixture EXCEPT !["sem1"].is_active = b]
    /\ enrollments = {}
    /\ attendance_records = {}
    /\ now = 0
    /\ last = NoCall
    /\ users = users_fixture
    /\ teaching_assistants = teaching_assistants_fixture
    /\ requests = [c \in Clients |-> NoRequest]
    /\ course_prerequisites = {}
    /\ page = NoPage
    /\ course_offerings = course_offerings_fixture

NextLifecycle ==
    \/ StartRegistration
    \/ StopAllActiveRegistrations
    \/ Tick
    \/ CallAvailableOfferings
    \/ Return

SpecLifecycle == InitLifecycle /\ [][NextLifecycle]_vars

(***************************************************************************)
(* The concurrent specification: both clients mark attendance once, on an  *)
(* attendance_records table that starts empty.                             *)
(***************************************************************************)
InitConcurrent ==
    /\ current_semester = [s \in Students |-> IF s = "s1" THEN 1 ELSE 2]
    /\ semesters = semesters_fixture
    /\ enrollments = enrollments_fixture
    /\ attendance_records = {}
    /\ now = 0
    /\ last = NoCall
    /\ users = users_fixture
    /\ teaching_assistants = teaching_assistants_fixture
    /\ requests = [c \in Clients |-> NoRequest]
    /\ course_prerequisites = {}
    /\ page = NoPage
    /\ course_offerings = course_offerings_fixture

NextConcurrent ==
    \/ SendMarkAttendance
    \/ ExecuteInsertAttendance

SpecConcurrent == InitConcurrent /\ [][NextConcurrent]_vars

(***************************************************************************)
(* The users specification: the admin promotes students to teaching        *)
(* assistants and writes users rows.                                       *)
(***************************************************************************)
InitUsers ==
    /\ current_semester = [s \in Students |-> IF s = "s1" THEN 1 ELSE 2]
    /\ semesters = semesters_fixture
    /\ enrollments = {}
    /\ attendance_records = {}
    /\ now = 0
    /\ last = NoCall
    /\ users = users_fixture
    /\ teaching_assistants = teaching_assistants_fixture
    /\ requests = [c \in Clients |-> NoRequest]
    /\ course_prerequisites = {}
    /\ page = NoPage
    /\ course_offerings = course_offerings_fixture

NextUsers ==
    \/ PromoteStudentToTA
    \/ UpdateUserRole
    \/ Return

SpecUsers == InitUsers /\ [][NextUsers]_vars

(***************************************************************************)
(* The authorization specification: every user of the fixture reads and    *)
(* writes attendance_records.                                              *)
(***************************************************************************)
InitAuthorization ==
    /\ current_semester = [s \in Students |-> IF s = "s1" THEN 1 ELSE 2]
    /\ semesters = semesters_fixture
    /\ enrollments = enrollments_fixture
    /\ attendance_records = attendance_fixture
    /\ now = 0
    /\ last = NoCall
    /\ users = users_fixture
    /\ teaching_assistants = teaching_assistants_fixture
    /\ requests = [c \in Clients |-> NoRequest]
    /\ course_prerequisites = {}
    /\ page = NoPage
    /\ course_offerings = course_offerings_fixture

NextAuthorization ==
    \/ SelectCourseTas
    \/ SelectAttendance
    \/ InsertAttendanceAs
    \/ UpdateAttendanceAs
    \/ DeleteAttendanceAs
    \/ Return

SpecAuthorization == InitAuthorization /\ [][NextAuthorization]_vars

(***************************************************************************)
(* The teacher specification: students enroll, enrollments are completed   *)
(* or dropped, and teachers ask for their offerings.  The second offering  *)
(* of t1 is in either semester or has lost its semester (semester_id is    *)
(* nullable, ON DELETE SET NULL); the second semester starts with, after   *)
(* or without a date next to the first.                                    *)
(***************************************************************************)
InitTeacher ==
    /\ current_semester = [s \in Students |-> IF s = "s1" THEN 1 ELSE 2]
    /\ \E d \in {1, 2, NULL} :
         semesters = [semesters_fixture EXCEPT !["sem2"].start_date = d]
    /\ enrollments = {}
    /\ attendance_records = {}
    /\ now = 0
    /\ last = NoCall
    /\ users = users_fixture
    /\ teaching_assistants = teaching_assistants_fixture
    /\ requests = [c \in Clients |-> NoRequest]
    /\ course_prerequisites = {}
    /\ page = NoPage
    /\ \E m \in Semesters \cup {NULLTEXT} :
         course_offerings = [course_offerings_fixture EXCEPT !["o2"].semester_id = m]

NextTeacher ==
    \/ InsertEnrollment
    \/ UpdateEnrollment
    \/ CallTeacherOfferings
    \/ Return

SpecTeacher == InitTeacher /\ [][NextTeacher]_vars

(***************************************************************************)
(* The catalog specification: teachers add prerequisites.                  *)
(***************************************************************************)
InitCatalog ==
    /\ current_semester = [s \in Students |-> IF s = "s1" THEN 1 ELSE 2]
    /\ semesters = semesters_fixture
    /\ enrollments = {}
    /\ attendance_records = {}
    /\ now = 0
    /\ last = NoCall
    /\ users = users_fixture
    /\ teaching_assistants = teaching_assistants_fixture
    /\ requests = [c \in Clients |-> NoRequest]
    /\ course_prerequisites = {}
    /\ page = NoPage
    /\ course_offerings = course_offerings_fixture

NextCatalog ==
    \/ HandlePrerequisiteSubmit
    \/ InsertCoursePrerequisiteAs
    \/ Return

SpecCatalog == InitCatalog /\ [][NextCatalog]_vars

(***************************************************************************)
(* The admin specification: the admin logs in and uses the admin page.     *)
(***************************************************************************)
InitAdmin ==
    /\ current_semester = [s \in Students |-> IF s = "s1" THEN 6 ELSE 7]
    /\ semesters = semesters_fixture
    /\ enrollments = {}
    /\ attendance_records = {}
    /\ now = 0
    /\ last = NoCall
    /\ users = users_fixture
    /\ teaching_assistants = teaching_assistants_fixture
    /\ requests = [c \in Clients |-> NoRequest]
    /\ course_prerequisites = {}
    /\ course_offerings = course_offerings_fixture
    /\ page = loaded_page("index.html", EmptyStorage)

NextAdmin ==
    \/ handleLogin
    \/ LoginReply
    \/ Logout
    \/ Navigate
    \/ HandleAddNew
    \/ HandleStartRegistration
    \/ HandleConfirmed
    \/ AdminReply
    \/ Return

SpecAdmin == InitAdmin /\ [][NextAdmin]_vars

(***************************************************************************)
(* The student specification: a student changes the semester filter.       *)
(***************************************************************************)
InitStudent ==
    /\ current_semester = [s \in Students |-> IF s = "s1" THEN 1 ELSE 2]
    /\ semesters = semesters_fixture
    /\ enrollments = {}
    /\ attendance_records = {}
    /\ now = 0
    /\ last = NoCall
    /\ users = users_fixture
    /\ teaching_assistants = teaching_assistants_fixture
    /\ requests = [c \in Clients |-> NoRequest]
    /\ course_prerequisites = {}
    /\ course_offerings = course_offerings_fixture
    /\ page = student_page_loaded

NextStudent ==
    \/ HandleSemesterFilterChange
    \/ ProfileReply
    \/ GradesReply
    \/ GpaReply

SpecStudent == InitStudent /\ [][NextStudent]_vars

\* Every request is answered in the end (fetch settles), and a call returns.
SpecAdminFair ==
    /\ SpecAdmin
    /\ WF_vars(Return)
    /\ \A h \in AdminHandlers :
         SF_vars(\E status \in Statuses : admin_reply(h, status))

(***************************************************************************)
(* The TA specification: a TA looks at rosters.                            *)
(***************************************************************************)
InitTA ==
    /\ current_semester = [s \in Students |-> IF s = "s1" THEN 1 ELSE 2]
    /\ semesters = semesters_fixture
    /\ enrollments = {}
    /\ attendance_records = {}
    /\ now = 0
    /\ last = NoCall
    /\ users = users_fixture
    /\ teaching_assistants = teaching_assistants_fixture
    /\ requests = [c \in Clients |-> NoRequest]
    /\ course_prerequisites = {}
    /\ course_offerings = course_offerings_fixture
    /\ page = ta_page_loaded

NextTA ==
    \/ GetStudentRoster
    \/ RosterReply
    \/ Return

SpecTA == InitTA /\ [][NextTA]_vars

(***************************************************************************)
(* C1: a call of increment_all_student_semesters raises by exactly one the *)
(* current_semester of every student below 8 and leaves every other        *)
(* student as it was; no current_semester ever exceeds 8.                  *)
(***************************************************************************)
C1_AdvanceByOneCappedAt8 ==
    /\ \A s \in Students : current_semester[s] <= MaxSemester
    /\ last.op = "increment_all_student_semesters" =>
         \A s \in Students :
            current_semester[s] =
               IF last.before[s] # NULL /\ last.before[s] < MaxSemester
               THEN last.before[s] + 1
               ELSE last.before[s]

C1_Witness ==
    /\ last.op = "increment_all_student_semesters"
    /\ last.before["s1"] = 8 /\ current_semester["s1"] = 8
    /\ last.before["s2"] = 7 /\ current_semester["s2"] = 8

(***************************************************************************)
(* C2: in every step, the current_semester of a student changes only when  *)
(* the step is increment_all_student_semesters, and never decreases.       *)
(***************************************************************************)
C2_OnlyAdvanceChangesSemester ==
    [][\A s \in Students :
          current_semester'[s] # current_semester[s] =>
             /\ last'.op = "increment_all_student_semesters"
             /\ current_semester'[s] > current_semester[s]]_vars

(***************************************************************************)
(* What the claims about attendance compare the reports with: the class    *)
(* days and the present days of a student, counted over the dates.         *)
(***************************************************************************)
NoRecords(o) == ~\E ar \in attendance_records : ar.offering_id = o

ClassDays(o) ==
    {d \in Dates : \E ar \in attendance_records : ar.offering_id = o /\ ar.date = d}

PresentDays(o, s) ==
    {d \in Dates :
        [offering_id |-> o, student_id |-> s, date |-> d, status |-> "present"]
            \in attendance_records}

OfferingOf(course, sem) ==
    CHOOSE o \in Offerings :
        course_offerings[o].course_id = course /\ course_offerings[o].semester_id = sem

(***************************************************************************)
(* C3: for an offering with no attendance record, the percentage in every  *)
(* row of get_course_attendance_stats, get_student_current_attendance and  *)
(* get_student_course_history is 0.0.                                      *)
(***************************************************************************)
C3_ZeroPercentageWithoutRecords ==
    /\ last.op = "get_course_attendance_stats" /\ NoRecords(last.o_id) =>
         \A r \in last.result : r.attendance_percentage = 0
    /\ last.op = "get_student_current_attendance" =>
         \A r \in last.result :
            NoRecords(r.course_id) => r.attendance_percentage = 0
    /\ last.op = "get_student_course_history" =>
         \A r \in last.result :
            NoRecords(OfferingOf(r.course_code, r.semester_id)) =>
               r.attendance_percentage = 0

C3_Witness ==
    /\ last.op = "get_student_current_attendance"
    /\ last.s_id = "s1"
    /\ NoRecords("o2") /\ ~NoRecords("o1")
    /\ \E r \in last.result : r.course_id = "o2" /\ r.attendance_percentage = 0
    /\ \E r \in last.result : r.course_id = "o1" /\ r.attendance_percentage > 0

(***************************************************************************)
(* C4: for an offering with at least one class day, the percentage of a    *)
(* student is present days * 100 / class days cut to two decimals: the     *)
(* largest number of hundredths p with p * days <= present * 10000.        *)
(***************************************************************************)
IsTruncatedPercentage(p, o, s) ==
    LET days == Cardinality(ClassDays(o))
        present == Cardinality(PresentDays(o, s))
    IN  /\ p * days <= present * 10000
        /\ present * 10000 < (p + 1) * days

C4_PercentageIsTruncatedQuotient ==
    /\ last.op = "get_course_attendance_stats" /\ ClassDays(last.o_id) # {} =>
         \A r \in last.result :
            /\ r.total_classes = Cardinality(ClassDays(last.o_id))
            /\ r.attended_classes = Cardinality(PresentDays(last.o_id, r.student_id))
            /\ IsTruncatedPercentage(r.attendance_percentage, last.o_id, r.student_id)
    /\ last.op = "get_student_current_attendance" =>
         \A r \in last.result :
            ClassDays(r.course_id) # {} =>
               IsTruncatedPercentage(r.attendance_percentage, r.course_id, last.s_id)

C4_Witness ==
    /\ last.op = "get_course_attendance_stats"
    /\ Cardinality(ClassDays(last.o_id)) = 3
    /\ \E r \in last.result :
          r.attended_classes = 2 /\ r.attendance_percentage = 6666

(***************************************************************************)
(* C5: get_course_attendance_stats(o) has exactly one row for each student *)
(* whose enrollment in o has status enrolled, no other row, and the same   *)
(* total_classes in every row.                                             *)
(***************************************************************************)
EnrolledIn(o) ==
    {s \in Students :
        \E e \in enrollments :
            e.student_id = s /\ e.offering_id = o /\ e.status = "enrolled"}

C5_StatsRowsAreTheEnrolledStudents ==
    last.op = "get_course_attendance_stats" =>
        /\ {r.student_id : r \in last.result} = EnrolledIn(last.o_id)
        /\ \A r1, r2 \in last.result : r1.student_id = r2.student_id => r1 = r2
        /\ \A r1, r2 \in last.result : r1.total_classes = r2.total_classes

C5_Witness ==
    /\ last.op = "get_course_attendance_stats"
    /\ last.o_id = "o1"
    /\ \E e \in enrollments :
          e.student_id = "s1" /\ e.offering_id = "o1" /\ e.status = "completed"
    /\ last.result =
          {[student_id |-> "s2", total_classes |-> 2, attended_classes |-> 0,
            attendance_percentage |-> 0]}

(***************************************************************************)
(* What the claims about grade point averages compare the results with:    *)
(* sums over the offerings in which a student has an enrollment of a kind. *)
(***************************************************************************)
EnrollmentOf(s, o) ==
    CHOOSE e \in enrollments : e.student_id = s /\ e.offering_id = o

\* The offerings in which s has a completed enrollment.
Completed(s) ==
    {o \in Offerings :
        \E e \in enrollments :
            e.student_id = s /\ e.offering_id = o /\ e.status = "completed"}

\* The offerings in which s has a completed enrollment with a grade_point.
CompletedGraded(s) ==
    {o \in Completed(s) : EnrollmentOf(s, o).grade_point # NULL}

InSemester(m) == {o \in Offerings : course_offerings[o].semester_id = m}

\* The offerings of the semesters that started on or before day d.
StartedBy(d) ==
    {o \in Offerings :
        /\ semesters[course_offerings[o].semester_id].start_date # NULL
        /\ semesters[course_offerings[o].semester_id].start_date <= d}

RECURSIVE Total(_, _)
Total(f, S) ==
    IF S = {} THEN 0
    ELSE LET x == CHOOSE y \in S : TRUE IN f[x] + Total(f, S \ {x})

Credits(o) == courses[course_offerings[o].course_id].credits

\* sum(credits * grade_point) over the graded enrollments of s in O.
Points(s, O) ==
    Total([o \in Offerings |->
              IF o \in CompletedGraded(s)
              THEN Credits(o) * EnrollmentOf(s, o).grade_point ELSE 0], O)

\* sum(credits) over O.
Weight(O) == Total([o \in Offerings |-> Credits(o)], O)

\* r is sum(credits * grade_point) / sum(credits) of s over O, 0.0 when
\* there is nothing to average.
IsAverageOver(r, s, O) ==
    IF O \cap CompletedGraded(s) = {}
    THEN r = ZeroDecimal
    ELSE /\ r.den > 0
         /\ r.num * Weight(O) = Points(s, O) * r.den

(***************************************************************************)
(* C6: SGPA and CGPA of a student with no enrollment that is completed and *)
(* graded (in the target semester; up to the cutoff) are 0.0.              *)
(***************************************************************************)
C6_GpaIsZeroWithoutGradedCourses ==
    /\ (/\ last.op = "get_student_sgpa"
        /\ CompletedGraded(last.s_id) \cap InSemester(last.target_sem_id) = {})
         => last.result = ZeroDecimal
    /\ (/\ last.op = "get_student_cgpa"
        /\ last.max_sem_date = NULL
        /\ CompletedGraded(last.s_id) = {})
         => last.result = ZeroDecimal
    /\ (/\ last.op = "get_student_cgpa"
        /\ last.max_sem_date # NULL
        /\ CompletedGraded(last.s_id) \cap StartedBy(last.max_sem_date) = {})
         => last.result = ZeroDecimal

C6_Witness ==
    /\ last.op = "get_student_sgpa"
    /\ last.s_id = "s1" /\ last.target_sem_id = "sem1"
    /\ enrollment_row("s1", "o1", "completed", NULLTEXT, NULL) \in enrollments
    /\ enrollment_row("s1", "o2", "enrolled", "A", 9) \in enrollments
    /\ last.result = ZeroDecimal

(***************************************************************************)
(* C7, as claimed: SGPA(student, semester) is sum(credits * grade_point) / *)
(* sum(credits) over exactly the completed enrollments of the student in   *)
(* the semester.                                                           *)
(***************************************************************************)
C7_Original_SgpaOverCompleted ==
    last.op = "get_student_sgpa" =>
        IsAverageOver(last.result, last.s_id,
                      Completed(last.s_id) \cap InSemester(last.target_sem_id))

(***************************************************************************)
(* C7, amended: SGPA(student, semester) is sum(credits * grade_point) /    *)
(* sum(credits) over exactly the completed enrollments of the student in   *)
(* the semester that have a grade_point; enrolled and dropped enrollments, *)
(* other students and other semesters do not count.                        *)
(***************************************************************************)
C7_SgpaOverCompletedGraded ==
    last.op = "get_student_sgpa" =>
        IsAverageOver(last.result, last.s_id,
                      CompletedGraded(last.s_id) \cap InSemester(last.target_sem_id))

C7_Witness ==
    /\ last.op = "get_student_sgpa"
    /\ last.s_id = "s1" /\ last.target_sem_id = "sem1"
    /\ enrollment_row("s1", "o1", "completed", "A", 9) \in enrollments
    /\ enrollment_row("s1", "o2", "completed", "B", 6) \in enrollments
    /\ last.result = [num |-> 51, den |-> 7]

(***************************************************************************)
(* C8, as claimed: CGPA with a cutoff is the average over exactly the      *)
(* completed enrollments whose semester started on or before the cutoff,   *)
(* CGPA without a cutoff the average over all completed enrollments, and a *)
(* cutoff at or after every semester's start gives what no cutoff gives.   *)
(***************************************************************************)
C8_Original_CgpaOverCompleted ==
    last.op = "get_student_cgpa" =>
        /\ last.max_sem_date # NULL =>
              IsAverageOver(last.result, last.s_id,
                            Completed(last.s_id) \cap StartedBy(last.max_sem_date))
        /\ last.max_sem_date = NULL =>
              IsAverageOver(last.result, last.s_id, Completed(last.s_id))
        /\ (/\ last.max_sem_date # NULL
            /\ \A m \in Semesters :
                  semesters[m].start_date # NULL =>
                     semesters[m].start_date <= last.max_sem_date)
              => last.result = get_student_cgpa(last.s_id, NULL)

(***************************************************************************)
(* C8, amended: CGPA with a cutoff is the average over exactly the         *)
(* completed enrollments with a grade_point whose semester has a           *)
(* start_date on or before the cutoff, CGPA without a cutoff the average   *)
(* over all completed enrollments with a grade_point; a cutoff at or after *)
(* the start of every semester gives what no cutoff gives when every       *)
(* semester in which the student has such an enrollment has a start_date.  *)
(***************************************************************************)
C8_CgpaOverCompletedGraded ==
    last.op = "get_student_cgpa" =>
        /\ last.max_sem_date # NULL =>
              IsAverageOver(last.result, last.s_id,
                            CompletedGraded(last.s_id) \cap StartedBy(last.max_sem_date))
        /\ last.max_sem_date = NULL =>
              IsAverageOver(last.result, last.s_id, CompletedGraded(last.s_id))
        /\ (/\ last.max_sem_date # NULL
            /\ \A m \in Semesters :
                  semesters[m].start_date # NULL =>
                     semesters[m].start_date <= last.max_sem_date
            /\ \A o \in CompletedGraded(last.s_id) :
                  semesters[course_offerings[o].semester_id].start_date # NULL)
              => last.result = get_student_cgpa(last.s_id, NULL)

C8_Witness ==
    /\ last.op = "get_student_cgpa"
    /\ last.s_id = "s2" /\ last.max_sem_date = 1
    /\ semesters["sem2"].start_date = 2
    /\ enrollment_row("s2", "o2", "completed", "B", 6) \in enrollments
    /\ enrollment_row("s2", "o3", "completed", "A", 9) \in enrollments
    /\ last.result = [num |-> 24, den |-> 4]

(***************************************************************************)
(* C9: the offerings available to a student never include an offering in   *)
(* which the student has an enrollment, and are none when no semester has  *)
(* is_active and registration_start_date < now < registration_end_date.    *)
(***************************************************************************)
OpenSemesters ==
    {m \in Semesters :
        /\ semesters[m].is_active = TRUE
        /\ semesters[m].registration_start_date < now
        /\ now < semesters[m].registration_end_date}

HasEnrollment(s, o) ==
    \E e \in enrollments : e.student_id = s /\ e.offering_id = o

C9_AvailableExcludesEnrolledAndClosed ==
    last.op = "get_available_offerings_for_student" =>
        /\ \A r \in last.result : ~HasEnrollment(last.s_id, r.offering_id)
        /\ OpenSemesters = {} => last.result = {}

C9_Witness ==
    /\ last.op = "get_available_offerings_for_student"
    /\ last.s_id = "s1"
    /\ current_semester["s1"] = 1
    /\ OpenSemesters = {"sem1"}
    /\ HasEnrollment("s1", "o1")
    /\ {r.offering_id : r \in last.result} = {"o2"}

(***************************************************************************)
(* C10: the offerings available to a student are, for a semester open for  *)
(* registration, exactly the offerings of that semester whose course has   *)
(* the stream of the student or COMMON and the logical_semester of the     *)
(* student's current_semester or none, and in which the student has no     *)
(* enrollment.                                                             *)
(***************************************************************************)
Eligible(s, m) ==
    {o \in Offerings :
        LET c == courses[course_offerings[o].course_id]
        IN  /\ course_offerings[o].semester_id = m
            /\ (c.stream = student_stream[s] \/ c.stream = "COMMON")
            /\ (c.logical_semester = NULL
                \/ (current_semester[s] # NULL
                    /\ c.logical_semester = current_semester[s]))
            /\ ~HasEnrollment(s, o)}

C10_AvailableAreTheEligibleOfferings ==
    (last.op = "get_available_offerings_for_student" /\ OpenSemesters # {}) =>
        \E m \in OpenSemesters :
            /\ {r.offering_id : r \in last.result} = Eligible(last.s_id, m)
            /\ \A r \in last.result :
                  /\ r.semester_id = m
                  /\ r.course.stream \in {student_stream[last.s_id], "COMMON"}
                  /\ r.course.logical_semester \in {current_semester[last.s_id], NULL}

C10_Witness ==
    /\ last.op = "get_available_offerings_for_student"
    /\ last.s_id = "s2"
    /\ current_semester["s2"] = 2
    /\ OpenSemesters = {"sem1", "sem2"}
    /\ enrollments = {}
    /\ {r.offering_id : r \in last.result} = {"o3"}

(***************************************************************************)
(* Registration periods (C11-C14).                                         *)
(***************************************************************************)
\* The semesters of table sems that carry the pair (academic_year, season).
WithPair(sems, academic_year, season) ==
    {m \in DOMAIN sems :
        sems[m].academic_year = academic_year /\ sems[m].season = season}

ActiveIn(sems) == {m \in DOMAIN sems : sems[m].is_active}

InWindow(m) ==
    /\ semesters[m].registration_start_date < now
    /\ now < semesters[m].registration_end_date

OpenForRegistration == {m \in ActiveIn(semesters) : InWindow(m)}

StartedAgain ==
    /\ last.op = "start_registration"
    /\ WithPair(last.before, last.academic_year, last.season) # {}

AvailableAnswers(s) ==
    {r \in {{}} \cup {available_offerings(s, m) : m \in DOMAIN semesters} :
        get_available_offerings_for_student(s, r)}

\* C13: when StopAllActiveRegistrations has completed no semester is active,
\* and get_available_offerings_for_student answers every student with the
\* empty list, also when the time is inside a registration window; this stays
\* so in every state until a StartRegistration succeeds.
C13_StopAllClosesRegistration ==
    /\ [](/\ last.op = "stop_all_active_registrations" => ActiveIn(semesters) = {}
          /\ ActiveIn(semesters) = {} =>
                /\ \A s \in Students : AvailableAnswers(s) = {{}}
                /\ last.op = "get_available_offerings_for_student" =>
                        last.result = {})
    /\ [][(ActiveIn(semesters) = {} /\ ActiveIn(semesters') # {}) =>
            (last'.op = "start_registration" /\ last'.result = "ok")]_vars

C13_Witness ==
    /\ last.op = "stop_all_active_registrations"
    /\ "sem1" \in ActiveIn(last.before)
    /\ ActiveIn(semesters) = {}
    /\ InWindow("sem1")
    /\ \A s \in Students :
         /\ available_offerings(s, "sem1") # {}
         /\ AvailableAnswers(s) = {{}}

SameKey(r1, r2) ==
    /\ r1.offering_id = r2.offering_id
    /\ r1.student_id = r2.student_id
    /\ r1.date = r2.date

\* Both clients have had their INSERT for one and the same
\* (offering, student, date) run, and row-level security let both through.
BothInsertedSameKey ==
    /\ \A c \in Clients : requests[c].state = "done"
    /\ SameKey(requests["t1"], requests["ta1"])
    /\ \A c \in Clients : requests[c].result # "AuthorizationError"

\* C15: when the teacher and the TA of an offering insert an attendance
\* record for the same (offering, student, date) concurrently, in either order
\* exactly one INSERT succeeds and the other fails with a conflict, the stored
\* record has the status of the INSERT that succeeded, and the table never
\* holds two records for one (offering, student, date).
C15_OneConcurrentInsertWins ==
    /\ \A a, b \in attendance_records : SameKey(a, b) => a = b
    /\ BothInsertedSameKey =>
         \E w \in Clients :
            /\ requests[w].result = "ok"
            /\ \A c \in Clients \ {w} : requests[c].result = "ConflictError"
            /\ \A ar \in attendance_records :
                 SameKey(ar, requests[w]) => ar.status = requests[w].status

C15_Witness ==
    /\ BothInsertedSameKey
    /\ requests["t1"].status = "present" /\ requests["t1"].result = "ConflictError"
    /\ requests["ta1"].status = "absent" /\ requests["ta1"].result = "ok"
    /\ \E ar \in attendance_records :
         SameKey(ar, requests["ta1"]) /\ ar.status = "absent"

(***************************************************************************)
(* Teaching assistants and roles (C16, C17).                               *)
(***************************************************************************)
Promoted == last.op = "promote_student_to_ta"

NothingChangedByPromotion ==
    /\ users = last.before.users
    /\ teaching_assistants = last.before.teaching_assistants
    /\ current_semester = last.before.current_semester

WasStudent(u) == last.before.users[u].role = "student"

WasTA(u) ==
    \E ta \in last.before.teaching_assistants : ta.ta_id = u \/ ta.student_id = u

C17_RoleNeverChanges ==
    \A u \in Users : users[u].role = users_fixture[u].role

(***************************************************************************)
(* Grades (C18).                                                           *)
(***************************************************************************)
\* C18: an enrollment that carries a grade or a grade_point has status
\* completed: no write of enrollments that the policies permit to a student,
\* a teacher or a TA leaves an enrolled or dropped enrollment with a grade.
C18_GradeOnlyWhenCompleted ==
    \A e \in enrollments :
        (e.grade # NULLTEXT \/ e.grade_point # NULL) => e.status = "completed"

(***************************************************************************)
(* Who reads and writes attendance_records (C19, C20).                     *)
(***************************************************************************)
TeacherOf(o) == course_offerings[o].teacher_id

AssignedTAs(o) == {ct.ta_id : ct \in {x \in course_tas : x.offering_id = o}}

RecordsOf(o) == {ar \in attendance_records : ar.offering_id = o}

\* C19: a teacher who reads the attendance_records rows of an offering that
\* they neither teach nor assist as TA gets an AuthorizationError, and never
\* an empty or partial result as if the read had been authorized.
C19_ForeignTeacherReadIsRefused ==
    (/\ last.op = "select_attendance"
     /\ users[last.uid].role = "teacher"
     /\ last.uid # TeacherOf(last.offering_id)
     /\ last.uid \notin AssignedTAs(last.offering_id)) =>
        last.status = "AuthorizationError"

\* C20: an attendance_records row of offering O is created, updated or deleted
\* only by the teacher of O or a TA assigned to O; an admin reads every row
\* and writes none; a student reads only the rows whose student_id is the own
\* and writes none.
C20_AttendanceWrittenByTeacherOrTA ==
    /\ [](last.op = "select_attendance" =>
            /\ users[last.uid].role = "admin" =>
                    last.rows = RecordsOf(last.offering_id)
            /\ users[last.uid].role = "student" =>
                    last.rows = {ar \in RecordsOf(last.offering_id) :
                                    ar.student_id = last.uid})
    /\ [][attendance_records' # attendance_records =>
            /\ last'.op \in {"insert_attendance", "update_attendance",
                             "delete_attendance"}
            /\ users[last'.uid].role \notin {"admin", "student"}
            /\ \A ar \in (attendance_records' \ attendance_records) \cup
                         (attendance_records \ attendance_records') :
                 \/ last'.uid = TeacherOf(ar.offering_id)
                 \/ last'.uid \in AssignedTAs(ar.offering_id)]_vars

C20_Witness ==
    /\ last.op = "delete_attendance"
    /\ last.uid = "ta1"
    /\ last.rows = {[offering_id |-> "o1", student_id |-> "s1", date |-> 1,
                     status |-> "present"]}
    /\ RecordsOf("o1") =
         {[offering_id |-> "o1", student_id |-> "s1", date |-> 2,
           status |-> "absent"]}

(***************************************************************************)
(* Who reads course_tas (C21).                                             *)
(***************************************************************************)
\* C21: a student reads no course_tas row and a TA reads only the rows that
\* assign that TA; only admins and the teacher of the offering read the
\* other assignments.
C21_CourseTasReadByRole ==
    last.op = "select_course_tas" =>
        \A ct \in last.rows :
            \/ users[last.uid].role = "admin"
            \/ last.uid = TeacherOf(ct.offering_id)
            \/ users[last.uid].role = "ta" /\ ct.ta_id = last.uid

(***************************************************************************)
(* Teacher offerings (C23).                                                *)
(***************************************************************************)
TaughtBy(t) == {o \in Offerings : course_offerings[o].teacher_id = t}

HasSemester(o) == course_offerings[o].semester_id \in DOMAIN semesters

ListedOfferings == {last.result[i].offering_id : i \in 1..Len(last.result)}

StartDateAt(i) == semesters[last.result[i].semester_id].start_date

CompletedFlagsAreRight ==
    \A i \in 1..Len(last.result) :
        last.result[i].is_completed <=>
            \E e \in enrollments :
                e.offering_id = last.result[i].offering_id /\ e.status = "completed"

\* C23 as stated: get_teacher_offerings_with_status returns exactly the
\* offerings the teacher teaches, is_completed is true exactly for those with
\* a completed enrollment, and the list is in non-increasing order of the
\* semester start_date.
C23_Original_AllOfferingsOfTeacher ==
    last.op = "get_teacher_offerings_with_status" =>
        /\ ListedOfferings = TaughtBy(last.t_id)
        /\ Len(last.result) = Cardinality(TaughtBy(last.t_id))
        /\ CompletedFlagsAreRight
        /\ \A i, j \in 1..Len(last.result) :
             i < j => StartDateAt(i) >= StartDateAt(j)

\* C23 as amended: get_teacher_offerings_with_status returns, once each,
\* exactly the offerings the teacher teaches that reference a semester;
\* is_completed is true exactly for those with a completed enrollment; the
\* offerings whose semester has no start_date come first, and the others
\* follow in non-increasing order of the semester start_date.
C23_OfferingsOfTeacherWithSemester ==
    last.op = "get_teacher_offerings_with_status" =>
        /\ ListedOfferings = {o \in TaughtBy(last.t_id) : HasSemester(o)}
        /\ Len(last.result) = Cardinality(ListedOfferings)
        /\ CompletedFlagsAreRight
        /\ \A i, j \in 1..Len(last.result) :
             i < j =>
                \/ StartDateAt(i) = NULL
                \/ (StartDateAt(j) # NULL /\ StartDateAt(i) >= StartDateAt(j))

C23_Witness ==
    /\ last.op = "get_teacher_offerings_with_status"
    /\ last.t_id = "t1"
    /\ Len(last.result) = 2
    /\ last.result[1].offering_id = "o2" /\ StartDateAt(1) = 2
    /\ last.result[2].offering_id = "o1" /\ StartDateAt(2) = 1
    /\ last.result[1].is_completed /\ ~last.result[2].is_completed
    /\ \E e \in enrollments : e.offering_id = "o1" /\ e.status = "dropped"

(***************************************************************************)
(* Prerequisites (C24).                                                    *)
(***************************************************************************)
\* C24: a prerequisite from a course to itself is never stored: the attempt
\* to add a course as its own prerequisite in the form is rejected with an
\* error before any request is sent and course_prerequisites stays as it
\* was, and no course_prerequisites row has
\* course_id = prerequisite_course_id.
C24_NoSelfPrerequisite ==
    /\ (last.op = "handlePrerequisiteSubmit"
        /\ last.courseId # NoSelection /\ last.courseId = last.prereqId) =>
            /\ ~last.sent
            /\ last.message = "A course cannot be a prerequisite for itself."
            /\ course_prerequisites = last.before
    /\ \A cp \in course_prerequisites : cp.course_id # cp.prerequisite_course_id

(***************************************************************************)
(* The admin page (C25).                                                   *)
(***************************************************************************)
AdvanceSent == page.awaiting["handleAdvanceSemester"]

\* C25: the advance-all-semesters request is sent only by a click whose
\* prompt the admin confirmed; after a click the admin declined, no request
\* was sent and the page and every student's current_semester are as
\* before; and current_semester changes only in answer to a request that
\* was sent.
C25_AdvanceOnlyAfterConfirm ==
    /\ [][(~AdvanceSent /\ AdvanceSent') =>
            (last'.op = "handleAdvanceSemester" /\ last'.confirmed)]_vars
    /\ [][(last'.op = "handleAdvanceSemester" /\ ~last'.confirmed /\ Idle) =>
            (/\ ~last'.sent
             /\ page' = page
             /\ current_semester' = current_semester)]_vars
    /\ [][current_semester' # current_semester => AdvanceSent]_vars

C25_Witness ==
    /\ last.op = "handleAdvanceSemester"
    /\ ~last.confirmed
    /\ ~AdvanceSent
    /\ current_semester["s1"] = 7

(***************************************************************************)
(* apiFetch and the stored tokens (C26).                                   *)
(***************************************************************************)
TokenStored == page.localStorage["access_token"] # NULLTEXT

\* C26: apiFetch sends a request only while an access_token is stored;
\* after a reply with status 401 or 403 access_token, refresh_token and
\* user_role are removed; and a token comes to be stored again only by a
\* successful login, so that no request is sent between the two.
C26_NoRequestWithoutToken ==
    /\ [][(\E h \in AdminHandlers : ~page.awaiting[h] /\ page'.awaiting[h])
            => TokenStored]_vars
    /\ [][(Idle /\ last'.op = "reply" /\ last'.status \in {401, 403}) =>
            \A k \in StorageKeys : page'.localStorage[k] = NULLTEXT]_vars
    /\ [][(~TokenStored /\ TokenStored') =>
            (last'.op = "login reply" /\ last'.status = 200)]_vars

C26_Witness ==
    /\ last.op = "handleAddNewStudent"
    /\ ~last.sent
    /\ ~TokenStored
    /\ page.location = "dashboard_admin.html"
    /\ page.awaiting["handleAdvanceSemester"]
    /\ ~page.awaiting["handleAddNewStudent"]

(***************************************************************************)
(* Attendance figures (C27).                                               *)
(***************************************************************************)
AttendanceFigures ==
    UNION {get_course_attendance_stats(o) : o \in Offerings}
        \cup UNION {get_student_current_attendance(s) : s \in Students}

FiguresInRange(row) ==
    /\ 0 <= row.attended_classes
    /\ row.attended_classes <= row.total_classes
    /\ 0 <= row.attendance_percentage
    /\ row.attendance_percentage <= 10000

\* C27: in every reachable state, every row that get_course_attendance_stats
\* and get_student_current_attendance compute for an enrolled student has
\* 0 <= attended_classes <= total_classes and an attendance_percentage
\* between 0 and 100 (0 and 10000 hundredths).
C27_AttendanceFiguresInRange ==
    \A row \in AttendanceFigures : FiguresInRange(row)

C27_Witness ==
    /\ \E row \in AttendanceFigures :
         row.total_classes = 2 /\ row.attended_classes = 2
            /\ row.attendance_percentage = 10000
    /\ \E row \in AttendanceFigures :
         row.total_classes = 2 /\ row.attended_classes = 1
    /\ \E row \in AttendanceFigures : row.total_classes = 0

(***************************************************************************)
(* The semester filter (C28).                                              *)
(***************************************************************************)
\* C28: after the student changed the semester filter, once no request is
\* outstanding and the containers show data, the grades list and the GPA
\* panel both show the data of the semester selected last.
C28_LastSelectionIsShown ==
    (/\ page.location = "dashboard_student.html"
     /\ Len(page.loads) > 1
     /\ Running = {}
     /\ page.grades \in FilterValues
     /\ page.gpa \in FilterValues) =>
        (page.grades = page.filter /\ page.gpa = page.filter)

(***************************************************************************)
(* The buttons of the admin page (C29).                                    *)
(***************************************************************************)
\* C29: every admin handler that disables its button (add student, add
\* teacher, start registration, stop registration, advance semester)
\* enables it again in the end, on every path after the disabling.
C29_ButtonEnabledAgain ==
    \A h \in AdminHandlers : page.disabled[h] ~> ~page.disabled[h]

(***************************************************************************)
(* The roster cache (C30).                                                 *)
(***************************************************************************)
\* C30: once a fetch of an offering's roster has succeeded, the roster
\* stored for the offering stays the same and every later call returns it
\* without a request; and a failed fetch stores nothing.
C30_RosterCachedOnce ==
    /\ [][\A o \in Offerings :
            roster_cached(page.studentRosters, o) =>
                page'.studentRosters[o] = page.studentRosters[o]]_vars
    /\ [][\A o \in Offerings :
            (/\ Idle /\ last'.op = "getStudentRoster" /\ last'.offeringId = o
             /\ roster_cached(page.studentRosters, o)) =>
                (~last'.sent /\ last'.result = page.studentRosters[o])]_vars
    /\ [][(Idle /\ last'.op = "roster reply" /\ last'.status # 200) =>
            page'.studentRosters = page.studentRosters]_vars

====
